---------------------------- MODULE Spec2Model ----------------------------
(***************************************************************************)
(* A model of the ed25519-ts library: field and scalar arithmetic,         *)
(* serialization, affine and extended twisted-Edwards points, Ristretto    *)
(* encoding, and EdDSA signing and verification.                           *)
(*                                                                         *)
(* Scale.  The library computes over p = 2^255 - 19 with 32-byte           *)
(* encodings and 64-byte digests.  TLC's integers are 32 bits wide, so the *)
(* model instantiates the same code over the curve of the same shape at    *)
(* 16 bits: p = 2^15 - 19 (prime, 5 mod 8), a = -1, d a non-square,        *)
(* group order 8 * l with l = 2^12 + 3 prime and 8 * l > 2^15 > p,         *)
(* encodings of B32 = 2 bytes (y in the low 15 bits, the sign of x in the  *)
(* top bit) and digests of 2 * B32 bytes.  The literals 255 and 256 of the *)
(* source become N255 = 15 and N256 = 16.  Every formula is the formula of *)
(* the source; only the numbers it is instantiated with are smaller.       *)
(*                                                                         *)
(* Integers.  Ints.multiply is exact on unbounded integers.  Where the     *)
(* source multiplies a value that is not yet reduced (a product of three   *)
(* factors, a squared sum) the model reduces that factor first, which      *)
(* leaves the residue the same and keeps every intermediate below 2^31.    *)
(*                                                                         *)
(* Values.  A byte array is a sequence of numbers in 0..255; a hex string  *)
(* is a sequence of digits 0..15.  An operation that may throw returns     *)
(* [ok |-> TRUE, val |-> v] or [ok |-> FALSE, err |-> message].            *)
(***************************************************************************)
EXTENDS Integers, Sequences, FiniteSets, TLC

(***************************************************************************)
(* The field names of the records of the model.  FieldOrder names each of *)
(* them once, and every record below lists its fields in this order, so   *)
(* that a record has the same layout in every run and in every worker.    *)
(***************************************************************************)
FieldOrder ==
    [ok |-> 1, val |-> 2, err |-> 3, type |-> 4, len |-> 5, isValid |-> 6,
     value |-> 7, length |-> 8, wbits |-> 9, window |-> 10, n |-> 11,
     read |-> 12, into |-> 13, B32 |-> 14, ws |-> 15, frame |-> 16,
     reg |-> 17, fn |-> 18, BASE |-> 19, op |-> 20, obj |-> 21,
     signature |-> 22, held |-> 23, point |-> 24, a |-> 25, b |-> 26,
     x |-> 27, y |-> 28, u |-> 29, v |-> 30, buffer |-> 31, z |-> 32,
     t |-> 33, WINDOW_SIZE |-> 34, hash |-> 35, privateKey |-> 36,
     publicKey |-> 37, at |-> 38, awaited |-> 39, p |-> 40, d |-> 41,
     f |-> 42, pk |-> 43, sig |-> 44, own |-> 45, bytes |-> 46, S |-> 47,
     others |-> 48, affinePoint |-> 49, W |-> 50, k |-> 51, P |-> 52,
     msg |-> 53, r |-> 54, s |-> 55, R |-> 56, Q |-> 57, calls |-> 58,
     i |-> 59, b32 |-> 60, draws |-> 61, rejected |-> 62, key |-> 63,
     exp |-> 64, out |-> 65, inverts |-> 66, points |-> 67, toInv |-> 68,
     arrays |-> 69]

(***************************************************************************)
(* Curve parameters and constants (curve.ts), at the scale of the model.   *)
(***************************************************************************)
B32 == 2
N255 == 15
N256 == 16
CURVE_a == -1
CURVE_d == 7735
CURVE_P == 32749
CURVE_n == 4099
CURVE_h == 8
CURVE_Gx == 2426
CURVE_Gy == 12
SQRT_M1 == 15645
SQRT_AD_MINUS_ONE == 23409
INVSQRT_A_MINUS_D == 3608
ONE_MINUS_D_SQ == 2199
D_MINUS_ONE_SQ == 15082

(***************************************************************************)
(* Results of operations that may throw.                                   *)
(***************************************************************************)
Ok(v) == [ok |-> TRUE, val |-> v]
Throw(msg) == [ok |-> FALSE, err |-> msg]

\* The same for a call that may write the registry of precomputes: reg is
\* the registry as the call leaves it.
Raise(msg, reg) == [ok |-> FALSE, err |-> msg, reg |-> reg]
Return(v, reg) == [ok |-> TRUE, val |-> v, reg |-> reg]

\* The outcome alone, and the value undefined.
Out(r) == IF r.ok THEN Ok(r.val) ELSE Throw(r.err)

None == [type |-> "undefined"]

Pow2(k) == 2 ^ k
Abs(v) == IF v < 0 THEN -v ELSE v

(***************************************************************************)
(* The Integers interface (integers.ts, native-bigint.ts).  remainder and  *)
(* divide truncate toward zero, as the BigInt operators % and / do.        *)
(***************************************************************************)
remainder(v, m) == IF v >= 0 THEN v % Abs(m) ELSE -((-v) % Abs(m))
divide(v, m) ==
    IF (v >= 0) = (m > 0) THEN Abs(v) \div Abs(m) ELSE -(Abs(v) \div Abs(m))

(***************************************************************************)
(* MathFunctions (math.ts).                                                *)
(***************************************************************************)
\* mod(a, b): the remainder made non-negative (res >= 0 ? res : b + res).
\* For b > 0, the only use, that is the % of TLA+.
modB(v, b) == v % b

mod(v) == v % CURVE_P

\* math.mod(Ints.multiply(a, b)) with the factors reduced first.
mulmod(v, w) == ((v % CURVE_P) * (w % CURVE_P)) % CURVE_P

edIsNegative(num) == ((num % CURVE_P) % 2) = 1

\* The loop of invert; st holds the loop's variables a, b, x, y, u, v.
RECURSIVE invertLoop(_)
invertLoop(st) ==
    IF st.a = 0 THEN st
    ELSE LET q == divide(st.b, st.a)
             r == remainder(st.b, st.a)
             m == st.x - st.u * q
             n == st.y - st.v * q
         IN  invertLoop([a |-> r, b |-> st.a, x |-> st.u, y |-> st.v, u |-> m, v |-> n])

\* The x of the extended Euclidean algorithm as the loop leaves it, not
\* brought into [0, modulo).
invertUnreduced(number, modulo) ==
    IF number = 0 \/ modulo <= 0
    THEN Throw("invert: expected positive integers")
    ELSE LET end == invertLoop([a |-> modB(number, modulo), b |-> modulo,
                                x |-> 0, y |-> 1, u |-> 1, v |-> 0])
         IN  IF end.b # 1 THEN Throw("invert: does not exist") ELSE Ok(end.x)

invert(number, modulo) ==
    IF number = 0 \/ modulo <= 0
    THEN Throw("invert: expected positive integers")
    ELSE LET end == invertLoop([a |-> modB(number, modulo), b |-> modulo,
                                x |-> 0, y |-> 1, u |-> 1, v |-> 0])
             gcd == end.b
         IN  IF gcd # 1 THEN Throw("invert: does not exist")
             ELSE Ok(modB(end.x, modulo))

\* First loop of invertBatch over the indices lo..hi, entered with acc: the
\* value of acc after each index.  (The loops of the source are iterations;
\* here a range is split in halves so that the evaluation stays shallow.)
RECURSIVE invertBatchScratch(_, _, _, _, _)
invertBatchScratch(nums, n, lo, hi, acc) ==
    IF lo > hi THEN <<>>
    ELSE IF lo = hi
    THEN <<IF nums[lo] = 0 THEN acc ELSE modB(acc * nums[lo], n)>>
    ELSE LET mid == (lo + hi) \div 2
             left == invertBatchScratch(nums, n, lo, mid, acc)
         IN  left \o invertBatchScratch(nums, n, mid + 1, hi, left[Len(left)])

\* Second loop of invertBatch, from index hi down to lo, entered with acc:
\* the value of acc after each index, in the order the loop visits them.
RECURSIVE invertBatchBack(_, _, _, _, _)
invertBatchBack(nums, n, lo, hi, acc) ==
    IF lo > hi THEN <<>>
    ELSE IF lo = hi
    THEN <<IF nums[lo] = 0 THEN acc ELSE modB(acc * nums[lo], n)>>
    ELSE LET mid == (lo + hi) \div 2
             upper == invertBatchBack(nums, n, mid + 1, hi, acc)
         IN  upper \o invertBatchBack(nums, n, lo, mid, upper[Len(upper)])

\* A call of invert made after inverts earlier calls: its outcome and the
\* number of calls made by then.
invertCall(number, modulo, inverts) ==
    [out |-> invert(number, modulo), inverts |-> inverts + 1]

\* The calls of invert over the entries of nums from the i-th on that are
\* not 0, one call for each.
RECURSIVE invertEachFrom(_, _, _, _)
invertEachFrom(nums, n, i, inverts) ==
    IF i > Len(nums) THEN <<>>
    ELSE IF nums[i] = 0 THEN <<[out |-> Ok(0), inverts |-> inverts]>>
                             \o invertEachFrom(nums, n, i + 1, inverts)
    ELSE <<invertCall(nums[i], n, inverts)>>
            \o invertEachFrom(nums, n, i + 1, inverts + 1)

\* An inversion of every entry that is not 0 on its own.
invertBatchEach(nums, n) ==
    LET each == invertEachFrom(nums, n, 1, 0)
    IN  [out |-> IF \E i \in 1..Len(each) : ~each[i].out.ok
                 THEN Throw("invert: does not exist")
                 ELSE Ok([i \in 1..Len(each) |-> each[i].out.val]),
         inverts |-> IF Len(each) = 0 THEN 0 ELSE each[Len(each)].inverts]

\* invertBatch(nums, n): its outcome, the array nums with the inverses
\* written into it, and the number of calls of invert it made.
invertBatchCalls(nums, n) ==
    LET len == Len(nums)
        fwd == invertBatchScratch(nums, n, 1, len, 1)
        scratch == [i \in 1..len |-> IF i = 1 THEN 1 ELSE fwd[i - 1]]
        inv == invertCall(IF len = 0 THEN 1 ELSE fwd[len], n, 0)
        back == invertBatchBack(nums, n, 1, len, inv.out.val)
    IN  [out |-> IF ~inv.out.ok THEN inv.out
                 ELSE Ok([i \in 1..len |->
                            IF nums[i] = 0 THEN 0
                            ELSE modB((IF i = len THEN inv.out.val ELSE back[len - i])
                                          * scratch[i], n)]),
         inverts |-> inv.inverts]

invertBatch(nums, n) == invertBatchCalls(nums, n).out

RECURSIVE pow2(_, _)
pow2(x, power) ==
    IF power > 0 THEN pow2(remainder(x * x, CURVE_P), power - 1) ELSE x

\* x ^ ((p - 5) / 8): the source's addition chain for 2^252 - 3, cut to the
\* exponent 2^12 - 3 of this field (ten one bits, then 0 and 1).
pow_2_252_3(xx) ==
    LET x == remainder(xx, CURVE_P)
        x2 == remainder(x * x, CURVE_P)
        b2 == remainder(x2 * x, CURVE_P)
        b4 == remainder(pow2(b2, 2) * b2, CURVE_P)
        b5 == remainder(pow2(b4, 1) * x, CURVE_P)
        b10 == remainder(pow2(b5, 5) * b5, CURVE_P)
    IN  remainder(pow2(b10, 2) * x, CURVE_P)

\* A root finder that also reports the square root of u * SQRT_M1 / v as a
\* root of u / v: what Point.fromHex would accept without its isValid test.
uvRatioRootLax(u, v, x0) ==
    LET vx2 == (((v * x0) % CURVE_P) * x0) % CURVE_P
        x2 == IF vx2 = u % CURVE_P THEN x0 ELSE (x0 * SQRT_M1) % CURVE_P
    IN  [isValid |-> TRUE, value |-> IF x2 % 2 = 1 THEN (-x2) % CURVE_P ELSE x2]

\* The root as the candidates give it, odd or even.
uvRatioRootSigned(u, v, x0) ==
    LET vx2 == mulmod(mulmod(v, x0), x0)
        useRoot1 == vx2 = u
        useRoot2 == vx2 = mod(-u)
        noRoot == vx2 = mod((-u) * SQRT_M1)
    IN  [isValid |-> useRoot1 \/ useRoot2,
         value |-> IF useRoot2 \/ noRoot THEN mulmod(x0, SQRT_M1) ELSE x0]

\* uvRatio from the candidate x = (u v^3) (u v^7)^((p - 5) / 8) on.
uvRatioRoot(u, v, x0) ==
    LET vx2 == mulmod(mulmod(v, x0), x0)
        root1 == x0
        root2 == mulmod(x0, SQRT_M1)
        useRoot1 == vx2 = u
        useRoot2 == vx2 = mod(-u)
        noRoot == vx2 = mod((-u) * SQRT_M1)
        x1 == IF useRoot1 THEN root1 ELSE x0
        x2 == IF useRoot2 \/ noRoot THEN root2 ELSE x1
        x3 == IF edIsNegative(x2) THEN mod(-x2) ELSE x2
    IN  [isValid |-> useRoot1 \/ useRoot2, value |-> x3]

uvRatio(u, v) ==
    LET v3 == mulmod(mulmod(v, v), v)
        v7 == mulmod(mulmod(v3, v3), v)
    IN  uvRatioRoot(u, v, mulmod(mulmod(u, v3), pow_2_252_3(mulmod(u, v7))))

\* The ratio the other way round, sqrt(number) instead of 1 / sqrt(number).
invertSqrtSwapped(number) == uvRatio(number, 1)

invertSqrt(number) == uvRatio(1, number)

(***************************************************************************)
(* The library instance and its environment.                               *)
(*   Ints        the integer backend handed to makeED                      *)
(*   sha512Impl  whether a SHA-512 implementation was injected             *)
(*   platform    what the platform offers for SHA-512: "web" where self    *)
(*               has crypto (WebCrypto), else "node" where process is that *)
(*               of node, else "none"                                      *)
(*   shaKey      which function SHA-512 is (the digest is external)        *)
(*   WINDOW_SIZE, pointPrecomputes   _WINDOW_SIZE of each affine point     *)
(*               object and the registry of precomputed tables             *)
(*   pending     the calls of the asynchronous functions in flight: the    *)
(*               await each is suspended in, with its arguments and locals *)
(*   inp, res    the arguments of the calls of a run and their results     *)
(***************************************************************************)
VARIABLES Ints, sha512Impl, platform, shaKey,
          WINDOW_SIZE, pointPrecomputes, pending, inp, res

vars == <<Ints, sha512Impl, platform, shaKey,
          WINDOW_SIZE, pointPrecomputes, pending, inp, res>>

\* Whether the platform offers SHA-512.
platformSha == platform # "none"

(***************************************************************************)
(* Serialization (serialization.ts).                                       *)
(***************************************************************************)
RECURSIVE toString16(_)
toString16(num) ==
    IF num < 16 THEN <<num>> ELSE Append(toString16(num \div 16), num % 16)

numberToHex(num) ==
    LET hex == toString16(num)
    IN  IF Len(hex) % 2 = 1 THEN <<0>> \o hex ELSE hex

padEnd(hex, targetLength) ==
    IF Len(hex) >= targetLength THEN hex
    ELSE hex \o [i \in 1..(targetLength - Len(hex)) |-> 0]

padStart(hex, targetLength) ==
    IF Len(hex) >= targetLength THEN hex
    ELSE [i \in 1..(targetLength - Len(hex)) |-> 0] \o hex

hexToBytes(hex) ==
    IF Len(hex) % 2 # 0 THEN Throw("hexToBytes: received invalid unpadded hex")
    ELSE Ok([i \in 1..(Len(hex) \div 2) |-> 16 * hex[2 * i - 1] + hex[2 * i]])

bytesToHex(uint8a) ==
    [i \in 1..(2 * Len(uint8a)) |->
        IF i % 2 = 1 THEN uint8a[(i + 1) \div 2] \div 16
                     ELSE uint8a[i \div 2] % 16]

reverse(arr) == [i \in 1..Len(arr) |-> arr[Len(arr) + 1 - i]]

\* The low length bytes alone.
numberToBytesTruncated(num, length) ==
    [i \in 1..length |-> (num \div Pow2(8 * (i - 1))) % 256]

numberToBytesPadded(num, length) ==
    reverse(hexToBytes(padStart(numberToHex(num), length * 2)).val)

\* Scalars.serializeNumber (scalars.ts): Math.ceil((hex.length - 2) / 2)
\* bytes are asked for, one less than the hex digits fill.
serializeNumber(n) == numberToBytesPadded(n, (Len(toString16(n)) - 1) \div 2)

\* JavaScript values whose type decides what the code does with them, a
\* scalar or a private key: a number is v * 2^exp, as a double is; a bigint
\* is a primitive bigint or an object of JSBI.  (Elsewhere a BIT is the
\* integer it holds.)
Number(v, exp) == [type |-> "number", v |-> v, exp |-> exp]
Num(n) == Number(n, 0)
BigIntOf(kind, n) == [type |-> kind, v |-> n]

\* Ints.BigInt(n): the bigint of the backend of the instance.
toBigInt(n) == BigIntOf(IF Ints = "JSBI" THEN "JSBI" ELSE "bigint", n)

\* Number.isInteger and Number.isSafeInteger: an integer of absolute value
\* below 2^53.  The v of a number of the model is below 2^31, so that
\* v * 2^exp is below 2^53 for every exp up to 22.
Number_isInteger(num) == num.exp >= 0 \/ num.v % Pow2(-num.exp) = 0

Number_isSafeInteger(num) ==
    /\ Number_isInteger(num)
    /\ \/ num.v = 0
       \/ num.exp <= 22
       \/ num.exp < 53 /\ Abs(num.v) < Pow2(53 - num.exp)

\* The integer a number that is an integer holds.
Number_value(num) ==
    IF num.exp >= 0 THEN num.v * Pow2(num.exp) ELSE num.v \div Pow2(-num.exp)

\* n instanceof this.ZERO.constructor || (typeof n === 'bigint' && typeof
\* this.ZERO == 'bigint'): ZERO is an object of JSBI, or a primitive bigint,
\* of which no value is an instance.
isBigIntType(n) ==
    \/ n.type = "JSBI" /\ Ints = "JSBI"
    \/ n.type = "bigint" /\ Ints = "NativeBigInt"

isValidScalarNonNegative(num) ==
    \/ isBigIntType(num) /\ num.v >= 0
    \/ num.type = "number" /\ num.v >= 0 /\ Number_isSafeInteger(num)

isValidScalar(num) ==
    \/ isBigIntType(num) /\ num.v > 0
    \/ num.type = "number" /\ num.v > 0 /\ Number_isSafeInteger(num)

RECURSIVE bytesToNumberLE(_)
bytesToNumberLE(uint8a) ==
    IF Len(uint8a) = 0 THEN 0
    ELSE uint8a[1] + 256 * bytesToNumberLE(Tail(uint8a))

concatBytes(arrays) ==
    IF Len(arrays) = 1 THEN arrays[1]
    ELSE LET RECURSIVE cat(_)
             cat(i) == IF i > Len(arrays) THEN <<>> ELSE arrays[i] \o cat(i + 1)
         IN  cat(1)

\* A comparison of the lengths alone.
equalBytesLength(b1, b2) == Len(b1) = Len(b2)

equalBytes(b1, b2) ==
    /\ Len(b1) = Len(b2)
    /\ \A i \in 1..Len(b1) : b1[i] = b2[i]

\* Uint8Array.prototype.slice(begin, end) and slice(begin).
slice(bytes, begin, end) ==
    SubSeq(bytes, begin + 1, IF end < Len(bytes) THEN end ELSE Len(bytes))

sliceFrom(bytes, begin) == SubSeq(bytes, begin + 1, Len(bytes))

\* A Hex argument: a Uint8Array or a hex string.  U8 is an array that fills
\* its ArrayBuffer; subarray(buffer, begin, end) is a view: the bytes from
\* begin to end of an ArrayBuffer that holds buffer.
U8(bytes) == [type |-> "Uint8Array", v |-> bytes]
subarray(buffer, begin, end) ==
    [type |-> "Uint8Array", v |-> SubSeq(buffer, begin + 1, end), buffer |-> buffer]

\* array.buffer: the bytes of the whole ArrayBuffer under the array.
bufferOf(array) == IF "buffer" \in DOMAIN array THEN array.buffer ELSE array.v
Str(hex) == [type |-> "string", v |-> hex]

ensureBytes(hash) == IF hash.type = "Uint8Array" THEN Ok(hash.v) ELSE hexToBytes(hash.v)

(***************************************************************************)
(* ExtendedPoint (points.ts).                                              *)
(***************************************************************************)
ExtendedPoint(x, y, z, t) == [x |-> x, y |-> y, z |-> z, t |-> t]
PointXY(x, y) == [x |-> x, y |-> y]

POINT_BASE == PointXY(CURVE_Gx, CURVE_Gy)
POINT_ZERO == PointXY(0, 0)

ExtendedPoint_BASE == ExtendedPoint(CURVE_Gx, CURVE_Gy, 1, mod(CURVE_Gx * CURVE_Gy))
ExtendedPoint_ZERO == ExtendedPoint(0, 1, 1, 0)

pointEquals(p, q) == p.x = q.x /\ p.y = q.y

\* Truthiness of a coordinate: a JSBI value is an object, always truthy;
\* a native bigint is falsy when it is 0n; a missing property is undefined.
truthy(obj, field) ==
    /\ field \in DOMAIN obj
    /\ (Ints = "NativeBigInt" => obj[field] # 0)

fromAffine(p) ==
    IF ~(truthy(p, "x") /\ truthy(p, "y") /\ ~truthy(p, "z") /\ ~truthy(p, "t"))
    THEN Throw("ExtendedPoint#fromAffine: expected Point")
    ELSE IF pointEquals(p, POINT_ZERO) THEN Ok(ExtendedPoint_ZERO)
    ELSE Ok(ExtendedPoint(p.x, p.y, 1, mod(p.x * p.y)))

\* toAffine with a given invZ, and with the default invZ = invert(z).
toAffineWith(e, invZ) == PointXY(mod(e.x * invZ), mod(e.y * invZ))

toAffine(e) ==
    LET invZ == invert(e.z, CURVE_P)
    IN  IF ~invZ.ok THEN invZ ELSE Ok(toAffineWith(e, invZ.val))

\* invertBatch on the array at of arrays: the inverses are written into
\* that array (nums[i] = ..., math.ts:57), which is what it returns.
invertBatchAt(arrays, at, n) ==
    LET batch == invertBatch(arrays[at], n)
    IN  [out |-> batch,
         arrays |-> IF batch.ok THEN [arrays EXCEPT ![at] = batch.val] ELSE arrays]

\* toAffineBatch from the arrays after invertBatch on: the affine points are
\* made of the points and of the entries of toInv.
toAffineBatchOf(batch) ==
    [out |-> IF ~batch.out.ok THEN batch.out
             ELSE Ok([i \in 1..Len(batch.arrays.points) |->
                        toAffineWith(batch.arrays.points[i], batch.arrays.toInv[i])]),
     arrays |-> batch.arrays]

\* toAffineBatch(points) with the arrays it works on: points, the array of
\* the caller, and toInv, the new array that points.map((p) => p.z) makes
\* and invertBatch is called on.
toAffineBatchArrays(points) ==
    toAffineBatchOf(invertBatchAt([points |-> points,
                                   toInv |-> [i \in 1..Len(points) |-> points[i].z]],
                                  "toInv", CURVE_P))

toAffineBatch(points) == toAffineBatchArrays(points).out

\* normalizeZ from the affine points of toAffineBatch on: fromAffine of each
\* (part_000:117).
normalizeZExtended(exts) ==
    IF \E i \in 1..Len(exts) : ~exts[i].ok
    THEN Throw("ExtendedPoint#fromAffine: expected Point")
    ELSE Ok([i \in 1..Len(exts) |-> exts[i].val])

normalizeZAffine(affs) ==
    IF ~affs.ok THEN affs
    ELSE normalizeZExtended([i \in 1..Len(affs.val) |-> fromAffine(affs.val[i])])

normalizeZ(points) == normalizeZAffine(toAffineBatch(points))

equals(this, other) == mod(this.t * other.z) = mod(other.t * this.z)

\* The comparison with the cross products X1 Y2 and X2 Y1 in the second
\* disjunct.
ristrettoEqualsCross(this, other) ==
    \/ equals(this, other)
    \/ mod(this.x * other.y) = mod(other.x * this.y)

ristrettoEquals(this, other) ==
    \/ equals(this, other)
    \/ mod(this.y * other.y) = mod(this.x * other.x)

negate(this) == ExtendedPoint(mod(-this.x), this.y, this.z, mod(-this.t))

double(this) ==
    LET X1 == this.x
        Y1 == this.y
        Z1 == this.z
        A == mod(X1 * X1)
        B == mod(Y1 * Y1)
        C == mod((2 * Z1) * Z1)
        D == mod(CURVE_a * A)
        X1pY1 == X1 + Y1
        E == mod(mulmod(X1pY1, X1pY1) - A - B)
        G == mod(D + B)
        F == mod(G - C)
        H == mod(D - B)
    IN  ExtendedPoint(mod(E * F), mod(G * H), mod(F * G), mod(E * H))

add(this, other) ==
    LET X1 == this.x
        Y1 == this.y
        Z1 == this.z
        T1 == this.t
        X2 == other.x
        Y2 == other.y
        Z2 == other.z
        T2 == other.t
        A == mod((Y1 - X1) * (Y2 + X2))
        B == mod((Y1 + X1) * (Y2 - X2))
        F == mod(B - A)
        C == mod((Z1 * 2) * T2)
        D == mod((T1 * 2) * Z2)
        E == mod(D + C)
        G == mod(B + A)
        H == mod(D - C)
    IN  IF F = 0 THEN double(this)
        ELSE ExtendedPoint(mod(E * F), mod(G * H), mod(F * G), mod(E * H))

\* The test of add for "same point": F = B - A = 0.
addSamePoint(this, other) ==
    mod(mod((this.y + this.x) * (other.y - other.x))
          - mod((this.y - this.x) * (other.y + other.x))) = 0

subtract(this, other) == add(this, negate(other))

\* The loop of multiplyUnsafe; st holds the loop's variables n, p, d.
RECURSIVE multiplyUnsafeLoop(_)
multiplyUnsafeLoop(st) ==
    IF st.n > 0
    THEN multiplyUnsafeLoop([n |-> st.n \div 2,
                             p |-> IF st.n % 2 # 0 THEN add(st.p, st.d) ELSE st.p,
                             d |-> double(st.d)])
    ELSE st.p

\* math.mod(scalar, CURVE.n) for a number that passed the validation: the
\* parameter is declared a BIT, and Ints.remainder is given the number.  The
\* native backend computes scalar % CURVE.n, which raises for a number and
\* a bigint; what JSBI.remainder does with a number is code of the jsbi
\* package, which the model does not enter.
multiplyUnsafeOfNumber ==
    CASE Ints = "NativeBigInt" ->
        Throw("Cannot mix BigInt and other types, use explicit conversions")

multiplyUnsafe(this, scalar) ==
    IF ~isValidScalar(scalar) THEN Throw("Point#multiply: expected number or bigint")
    ELSE IF scalar.type = "number" THEN multiplyUnsafeOfNumber
    ELSE LET n == modB(scalar.v, CURVE_n)
         IN  IF n = 1 THEN Ok(this)
             ELSE Ok(multiplyUnsafeLoop([n |-> n, p |-> ExtendedPoint_ZERO, d |-> this]))

(***************************************************************************)
(* Ristretto (points.ts).                                                  *)
(***************************************************************************)
bytes255ToNumberLE(bytes) == mod(bytesToNumberLE(bytes) % Pow2(N255))

\* calcElligatorRistrettoMap from the result uvr of uvRatio(Ns, D) on.
calcElligatorRistrettoMapRoot(r0, r, D, uvr) ==
    LET c0 == -1
        Ns_D_is_sq == uvr.isValid
        s0 == uvr.value
        sp == mod(s0 * r0)
        s_ == IF ~edIsNegative(sp) THEN mod(-sp) ELSE sp
        s == IF ~Ns_D_is_sq THEN s_ ELSE s0
        c == IF ~Ns_D_is_sq THEN r ELSE c0
        Nt == mod(mulmod(mulmod(c, r - 1), D_MINUS_ONE_SQ) - D)
        s2 == mod(s * s)
        W0 == mod((s + s) * D)
        W1 == mod(Nt * SQRT_AD_MINUS_ONE)
        W2 == mod(1 - s2)
        W3 == mod(1 + s2)
    IN  ExtendedPoint(mod(W0 * W3), mod(W2 * W1), mod(W1 * W3), mod(W0 * W2))

calcElligatorRistrettoMap(r0) ==
    LET r == mulmod(SQRT_M1, mulmod(r0, r0))
        Ns == mod((r + 1) * ONE_MINUS_D_SQ)
        c0 == -1
        D == mulmod(c0 - mulmod(CURVE_d, r), mod(r + CURVE_d))
    IN  calcElligatorRistrettoMapRoot(r0, r, D, uvRatio(Ns, D))

fromRistrettoHash(hash) ==
    LET r1 == bytes255ToNumberLE(SubSeq(hash, 1, B32))
        R1 == calcElligatorRistrettoMap(r1)
        r2 == bytes255ToNumberLE(SubSeq(hash, B32 + 1, B32 * 2))
        R2 == calcElligatorRistrettoMap(r2)
    IN  add(R1, R2)

\* fromRistrettoBytes from the result isr of invertSqrt(v * u2_2) on.
fromRistrettoBytesRoot(s, u1, u2, v, isr) ==
    LET emsg == "ExtendedPoint.fromRistrettoBytes: Cannot convert bytes to Ristretto Point"
        I == isr.value
        Dx == mod(I * u2)
        Dy == mulmod(mulmod(I, Dx), v)
        x0 == mod((s + s) * Dx)
        x == IF edIsNegative(x0) THEN mod(-x0) ELSE x0
        y == mod(u1 * Dy)
        t == mod(x * y)
    IN  IF ~isr.isValid \/ edIsNegative(t) \/ y = 0 THEN Throw(emsg)
        ELSE Ok(ExtendedPoint(x, y, 1, t))

fromRistrettoBytes(bytes) ==
    LET emsg == "ExtendedPoint.fromRistrettoBytes: Cannot convert bytes to Ristretto Point"
        s == bytes255ToNumberLE(bytes)
        s2 == mod(s * s)
        u1 == mod(1 + CURVE_a * s2)
        u2 == mod(1 - CURVE_a * s2)
        u1_2 == mod(u1 * u1)
        u2_2 == mod(u2 * u2)
        v == mod(CURVE_a * mulmod(CURVE_d, u1_2) - u2_2)
    IN  IF ~equalBytes(numberToBytesPadded(s, B32), bytes) \/ edIsNegative(s)
        THEN Throw(emsg)
        ELSE fromRistrettoBytesRoot(s, u1, u2, v, invertSqrt(mod(v * u2_2)))

\* toRistrettoBytes from invsqrt, the value of invertSqrt(u1 * u2^2), on.
toRistrettoBytesRoot(this, u1, u2, invsqrt) ==
    LET x0 == this.x
        y0 == this.y
        z == this.z
        t == this.t
        D1 == mod(invsqrt * u1)
        D2 == mod(invsqrt * u2)
        zInv == mulmod(mulmod(D1, D2), t)
        rotate == edIsNegative(mulmod(t, zInv))
        x1 == IF rotate THEN mod(y0 * SQRT_M1) ELSE x0
        y1 == IF rotate THEN mod(x0 * SQRT_M1) ELSE y0
        D == IF rotate THEN mod(D1 * INVSQRT_A_MINUS_D) ELSE D2
        y2 == IF edIsNegative(mulmod(x1, zInv)) THEN mod(-y1) ELSE y1
        s0 == mod((z - y2) * D)
        s == IF edIsNegative(s0) THEN mod(-s0) ELSE s0
    IN  numberToBytesPadded(s, B32)

toRistrettoBytes(this) ==
    LET u1 == mod((this.z + this.y) * (this.z - this.y))
        u2 == mod(this.x * this.y)
    IN  toRistrettoBytesRoot(this, u1, u2, invertSqrt(mulmod(mulmod(u1, u2), u2)).value)

(***************************************************************************)
(* wNAF multiplication with precomputed tables (points.ts).  An affine     *)
(* point object is named by an identifier: the keys of WINDOW_SIZE are the *)
(* Point objects that live across calls, "POINT_BASE" is the module-level  *)
(* plain object, "temp" a Point created for one call and "none" a missing  *)
(* argument.  reg is the registry pointPrecomputes; an absent entry is     *)
(* the empty sequence.                                                     *)
(***************************************************************************)
\* The inner loop of precomputeWindow for i in lo..hi, entered with base:
\* the points it pushes (the range is split in halves, as in invertBatch).
RECURSIVE precomputeRow(_, _, _, _)
precomputeRow(base, p, lo, hi) ==
    IF lo > hi THEN <<>>
    ELSE IF lo = hi THEN <<add(base, p)>>
    ELSE LET mid == (lo + hi) \div 2
             left == precomputeRow(base, p, lo, mid)
         IN  left \o precomputeRow(left[Len(left)], p, mid + 1, hi)

\* The number of passes of `for (window = 0; window < windows; window++)`
\* with windows = 256 / W + 1, a division of Numbers: the least integer that
\* is not below the quotient plus one, and none where that is not positive.
\* (W = 0 gives Infinity and a loop that does not end; W is not 0 here.)
precomputeWindows(W) ==
    IF W > 0 /\ remainder(N256, W) # 0 THEN divide(N256, W) + 2
    ELSE divide(N256, W) + 1

\* The last i of `for (i = 1; i < 2 ** (W - 1); i++)`; 2 ** (W - 1) is a
\* fraction for W < 1 and the loop is not entered.
precomputeRowLast(W) == IF W >= 1 THEN Pow2(W - 1) - 1 ELSE 0

RECURSIVE precomputeRows(_, _, _)
precomputeRows(p, window, W) ==
    IF window < precomputeWindows(W)
    THEN LET row == <<p>> \o precomputeRow(p, p, 1, precomputeRowLast(W))
         IN  row \o precomputeRows(double(row[Len(row)]), window + 1, W)
    ELSE <<>>

precomputeWindow(this, W) == precomputeRows(this, 0, W)

windowSizeOf(aff, ws) ==
    IF aff \in DOMAIN ws /\ ws[aff] # 0 THEN ws[aff] ELSE 1

registryGet(aff, reg) == IF aff \in DOMAIN reg THEN reg[aff] ELSE <<>>

\* What the loop of wNAF does with the scalar: for each window from window
\* on, the signed wbits, the scalar n carried on, the index of precomputes
\* that is read (from 0, as in the source) and the accumulator added into.
RECURSIVE wNAFDigitsUnsigned(_, _, _)
wNAFDigitsUnsigned(W, n, window) ==
    IF window < (N256 \div W) + 1
    THEN LET offset == window * Pow2(W - 1)
             wbits == n % Pow2(W)
         IN  <<[wbits |-> wbits, n |-> n \div Pow2(W),
                read |-> IF wbits = 0 THEN offset ELSE offset + wbits - 1,
                into |-> IF wbits = 0 THEN "f" ELSE "p"]>>
                 \o wNAFDigitsUnsigned(W, n \div Pow2(W), window + 1)
    ELSE <<>>

RECURSIVE wNAFDigits(_, _, _)
wNAFDigits(W, n, window) ==
    IF window < (N256 \div W) + 1
    THEN LET windowSize == Pow2(W - 1)
             maxNumber == Pow2(W)
             offset == window * windowSize
             wbits0 == n % maxNumber
             n1 == n \div maxNumber
             wbits == IF wbits0 > windowSize THEN wbits0 - maxNumber ELSE wbits0
             n2 == IF wbits0 > windowSize THEN n1 + 1 ELSE n1
         IN  <<[wbits |-> wbits, n |-> n2,
                read |-> IF wbits = 0 THEN offset ELSE offset + Abs(wbits) - 1,
                into |-> IF wbits = 0 THEN "f" ELSE "p"]>>
                 \o wNAFDigits(W, n2, window + 1)
    ELSE <<>>

\* The loop of wNAF; st holds the loop's variables window, n, p, f.
RECURSIVE wNAFLoop(_, _, _)
wNAFLoop(W, precomputes, st) ==
    IF st.window < (N256 \div W) + 1
    THEN LET windowSize == Pow2(W - 1)
             maxNumber == Pow2(W)
             offset == st.window * windowSize
             wbits0 == st.n % maxNumber
             n1 == st.n \div maxNumber
             wbits == IF wbits0 > windowSize THEN wbits0 - maxNumber ELSE wbits0
             n2 == IF wbits0 > windowSize THEN n1 + 1 ELSE n1
             cached == precomputes[offset + Abs(wbits)]
         IN  IF wbits = 0
             THEN wNAFLoop(W, precomputes,
                           [window |-> st.window + 1, n |-> n2, p |-> st.p,
                            f |-> add(st.f, IF st.window % 2 # 0
                                            THEN negate(precomputes[offset + 1])
                                            ELSE precomputes[offset + 1])])
             ELSE wNAFLoop(W, precomputes,
                           [window |-> st.window + 1, n |-> n2,
                            p |-> add(st.p, IF wbits < 0 THEN negate(cached) ELSE cached),
                            f |-> st.f])
    ELSE <<st.p, st.f>>

\* The registry after pointPrecomputes.set(aff, table), if the table is stored.
registrySet(aff, store, reg, table) ==
    IF store THEN [k \in DOMAIN reg \cup {aff} |-> IF k = aff THEN table ELSE reg[k]]
    ELSE reg

\* wNAF from the table of precomputes on: the mask and the loop over the
\* windows.  The result is the pair [p, f] and the registry after the call.
\* For W < 0 the number 2 ** W - 1 is not an integer (down to W = -53, which
\* covers every negative divisor of N256) and Ints.BigInt raises a RangeError,
\* whose text is the backend's.
wNAFWindows(n, aff, W, store, reg, precomputes) ==
    IF ~precomputes.ok THEN Raise(precomputes.err, reg)
    ELSE IF W < 0
    THEN Raise("RangeError: not an integer", registrySet(aff, store, reg, precomputes.val))
    ELSE Return(wNAFLoop(W, precomputes.val,
                         [window |-> 0, n |-> n, p |-> ExtendedPoint_ZERO,
                          f |-> ExtendedPoint_ZERO]),
                registrySet(aff, store, reg, precomputes.val))

wNAF(this, n, affArg, ws, reg) ==
    LET aff == IF affArg = "none" /\ equals(this, ExtendedPoint_BASE)
               THEN "POINT_BASE" ELSE affArg
        W == windowSizeOf(aff, ws)
        present == aff # "none" /\ aff \in DOMAIN reg
        found == IF aff = "none" THEN <<>> ELSE registryGet(aff, reg)
        store == ~present /\ aff # "none" /\ W # 1
    IN  IF remainder(N256, W) # 0
        THEN Raise("Point#wNAF: Invalid precomputation window, must be power of 2", reg)
        ELSE wNAFWindows(n, aff, W, store, reg,
                         IF present THEN Ok(found)
                         ELSE IF store THEN normalizeZ(precomputeWindow(this, W))
                         ELSE Ok(precomputeWindow(this, W)))

\* multiply from the pair w that wNAF returned on.
multiplyNormalized(w, normed) ==
    IF ~normed.ok THEN Raise(normed.err, w.reg)
    ELSE Return(normed.val[1], w.reg)

multiplyNormalize(w) ==
    IF ~w.ok THEN w ELSE multiplyNormalized(w, normalizeZ(w.val))

\* const s = typeof scalar === 'number' ? toBigInt(scalar) : scalar
multiplyScalar(scalar) ==
    IF scalar.type = "number" THEN toBigInt(Number_value(scalar)) ELSE scalar

multiply(this, scalar, aff, ws, reg) ==
    IF ~isValidScalar(scalar)
    THEN Raise("Point#multiply: expected number or bigint", reg)
    ELSE multiplyNormalize(wNAF(this, modB(multiplyScalar(scalar).v, CURVE_n), aff, ws, reg))

(***************************************************************************)
(* Point, the affine point class (points.ts).                              *)
(***************************************************************************)
Point_BASE == PointXY(CURVE_Gx, CURVE_Gy)
Point_ZERO == PointXY(0, 1)

\* Point.fromHex from the result uvr of uvRatio(u, v) on.
Point_fromHexRoot(isLastByteOdd, y, uvr) ==
    LET x0 == uvr.value
        isXOdd == (x0 % 2) = 1
        x == IF isLastByteOdd # isXOdd THEN mod(-x0) ELSE x0
    IN  IF ~uvr.isValid THEN Throw("Point.fromHex: invalid y coordinate")
        ELSE Ok(PointXY(x, y))

Point_fromHex(hash) ==
    LET conv == ensureBytes(hash)
        bytes == conv.val
        last == bytes[B32]
        normedLast == last % 128
        isLastByteOdd == last >= 128
        normed == SubSeq(bytes, 1, B32 - 1) \o <<normedLast>>
        y == bytesToNumberLE(normed)
        y2 == mod(y * y)
        u == mod(y2 - 1)
        v == mod(CURVE_d * y2 + 1)
    IN  IF ~conv.ok THEN conv
        ELSE IF Len(bytes) # B32 THEN Throw("Point.fromHex: expected 32 bytes")
        ELSE IF y >= CURVE_P THEN Throw("Point.fromHex expects hex <= Fp")
        ELSE Point_fromHexRoot(isLastByteOdd, y, uvRatio(u, v))

\* The encoding of y alone, without the parity of x in the top bit.
Point_toRawBytesUnsigned(this) ==
    [j \in 1..B32 |-> (this.y \div (256 ^ (j - 1))) % 256]

Point_toRawBytes(this) ==
    LET hex == numberToHex(this.y)
        nb == Len(hex) \div 2
        mask == IF (this.x % 2) # 0 THEN 128 ELSE 0
        u8 == [j \in 1..B32 |->
                 IF j <= nb
                 THEN 16 * hex[Len(hex) - 2 * j + 1] + hex[Len(hex) - 2 * j + 2]
                 ELSE 0]
    IN  [u8 EXCEPT ![B32] = IF u8[B32] >= 128 THEN u8[B32] ELSE u8[B32] + mask]

Point_toHex(this) == bytesToHex(Point_toRawBytes(this))

Point_equals(this, other) == this.x = other.x /\ this.y = other.y

Point_negate(this) == PointXY(mod(-this.x), this.y)

\* Point#multiply from the extended product prod on.
Point_multiplyAffine(prod) ==
    LET aff == toAffine(prod.val)
    IN  IF ~prod.ok THEN prod
        ELSE IF ~aff.ok THEN Raise(aff.err, prod.reg)
        ELSE Return(aff.val, prod.reg)

\* this.multiply(scalar) for the Point object obj with coordinates this.
Point_multiply(this, obj, scalar, ws, reg) ==
    LET ext == fromAffine(this)
    IN  IF ~ext.ok THEN Raise(ext.err, reg)
        ELSE Point_multiplyAffine(multiply(ext.val, scalar, obj, ws, reg))

\* this._setWindowSize(windowSize) for the Point object obj: the window sizes
\* and the registry after the call.
Point_setWindowSize(obj, windowSize, ws, reg) ==
    [ws |-> [k \in DOMAIN ws \cup {obj} |-> IF k = obj THEN windowSize ELSE ws[k]],
     reg |-> [k \in DOMAIN reg \ {obj} |-> reg[k]]]

Point_precomputeAlwaysClone(point, obj, clone) == clone

\* The object Point.precompute works on: the argument itself when it equals
\* Point.BASE, else a new Point (named clone) with the argument's coordinates.
Point_precomputeCached(point, obj, clone) ==
    IF Point_equals(point, Point_BASE) THEN obj ELSE clone

\* Point.precompute from the product prod of cached.multiply(1) on.
Point_precomputeReturn(windowSize, point, cached, prod) ==
    IF ~prod.ok THEN prod
    ELSE Return([obj |-> cached, x |-> point.x, y |-> point.y,
                 WINDOW_SIZE |-> windowSize], prod.reg)

\* Point.precompute(windowSize, point) for the Point object obj with
\* coordinates point: the object returned, or the error of the multiplication,
\* with the registry after the call.
Point_precompute(windowSize, point, obj, clone, ws, reg) ==
    LET cached == Point_precomputeCached(point, obj, clone)
        set == Point_setWindowSize(cached, windowSize, ws, reg)
    IN  Point_precomputeReturn(windowSize, point, cached,
                               Point_multiply(point, cached, toBigInt(1), set.ws, set.reg))

(***************************************************************************)
(* SHA-512 (hash.ts).  The digest itself is external: Digest is one of a   *)
(* family of functions from byte arrays to 2 * B32 bytes, chosen by        *)
(* shaKey, with values below 2^31.                                         *)
(***************************************************************************)
RECURSIVE Mix(_, _, _)
Mix(h, message, m) ==
    IF Len(message) = 0 THEN h
    ELSE Mix((h * 31 + message[1] + 7) % m, Tail(message), m)

Digest(message) ==
    LET h1 == Mix(shaKey + 17, message, 65536)
        h2 == Mix(3 * shaKey + 5, message, 32768)
    IN  <<h1 % 256, h1 \div 256, h2 % 256, h2 \div 256>>

\* sha512(message, sha512Impl) for the Uint8Array message.  The injected
\* implementation and node digest the bytes of the array; the WebCrypto
\* branch digests message.buffer, the whole ArrayBuffer under it (hash.ts:35).
sha512(message, impl) ==
    IF impl THEN Ok(Digest(message.v))
    ELSE IF platform = "web" THEN Ok(Digest(bufferOf(message)))
    ELSE IF platform = "node" THEN Ok(Digest(message.v))
    ELSE Throw("SHA512 unavailable on platform")

\* sha512ToNumberLE is asynchronous: the call concatenates its arguments and
\* calls sha512, whose promise it awaits (hash.ts:55-56); resumed with the
\* outcome hash of that promise, it returns the number (hash.ts:57-58).  The
\* library calls it with two or three arrays, which concatBytes copies into
\* a new array.
sha512ToNumberLECall(args) == sha512(U8(concatBytes(args)), sha512Impl)

sha512ToNumberLEResume(hash) ==
    IF ~hash.ok THEN hash
    ELSE Ok(modB(bytesToNumberLE(hash.val), CURVE_n))

\* The value of an awaited call; it reads and writes no state of the instance.
sha512ToNumberLE(args) == sha512ToNumberLEResume(sha512ToNumberLECall(args))

(***************************************************************************)
(* KeyUtils (key-utils.ts).  A private key is a Uint8Array, a hex string,  *)
(* a number or a bigint; any other value is None here.                     *)
(***************************************************************************)
\* The condition under which normalizePrivateKey takes the key for an
\* integer: key instanceof this.CURVE.P.constructor (an object of JSBI when
\* CURVE.P is one; no value when CURVE.P is a primitive bigint), a number
\* that is a safe integer, or a primitive bigint when CURVE.P is one.
normalizePrivateKeyIsInteger(key) ==
    \/ key.type = "JSBI" /\ Ints = "JSBI"
    \/ key.type = "number" /\ Number_isSafeInteger(key)
    \/ key.type = "bigint" /\ Ints = "NativeBigInt"

\* num = typeof key === 'number' ? this.Ints.BigInt(key) : key
normalizePrivateKeyNum(key) ==
    IF key.type = "number" THEN Number_value(key) ELSE key.v

\* The range test alone, without the tests of the length.
normalizePrivateKeyRangeOnly(key) ==
    IF normalizePrivateKeyIsInteger(key)
    THEN IF normalizePrivateKeyNum(key) < 0 \/ normalizePrivateKeyNum(key) > Pow2(N256)
         THEN Throw("Expected 32 bytes of private key")
         ELSE hexToBytes(padStart(numberToHex(normalizePrivateKeyNum(key)), B32 * 2))
    ELSE IF key.type = "string" THEN hexToBytes(key.v)
    ELSE IF key.type = "Uint8Array" THEN Ok(key.v)
    ELSE Throw("Expected valid private key")

normalizePrivateKey(key) ==
    LET isInteger == normalizePrivateKeyIsInteger(key)
        num == normalizePrivateKeyNum(key)
        asHex == IF isInteger THEN Str(padStart(toString16(num), B32 * 2)) ELSE key
    IN  IF isInteger /\ (num < 0 \/ num > Pow2(N256))
        THEN Throw("Expected 32 bytes of private key")
        ELSE IF asHex.type = "string"
        THEN IF Len(asHex.v) # 2 * B32 THEN Throw("Expected 32 bytes of private key")
             ELSE hexToBytes(asHex.v)
        ELSE IF asHex.type = "Uint8Array"
        THEN IF Len(asHex.v) # B32 THEN Throw("Expected 32 bytes of private key")
             ELSE Ok(asHex.v)
        ELSE Throw("Expected valid private key")

\* The array normalizePrivateKey returns, with bytes the bytes in it: the
\* array of the caller itself for a Uint8Array key (key-utils.ts, `return
\* key`), else the new array of hexToBytes.
normalizedArray(key, bytes) == IF key.type = "Uint8Array" THEN key ELSE U8(bytes)

encodePrivate(privateBytes) ==
    LET last == B32
        head == slice(privateBytes, 0, B32)
        h1 == [head EXCEPT ![1] = (@ \div 8) * 8]
        h2 == [h1 EXCEPT ![last] = @ % 128]
        h3 == [h2 EXCEPT ![last] = IF (@ \div 64) % 2 = 1 THEN @ ELSE @ + 64]
    IN  modB(bytesToNumberLE(h3), CURVE_n)

keyPrefix(privateBytes) == sliceFrom(privateBytes, B32)

(***************************************************************************)
(* Signing (signing.ts, curve.ts).  A Signature object is                  *)
(* [type |-> "Signature", r |-> point, s |-> scalar]; a Point object given *)
(* as a public key is [type |-> "Point", v |-> point].                     *)
(***************************************************************************)
isWithinCurveOrder(num) == 0 < num /\ num < CURVE_n

\* randomScalar (curve.ts): the number of iterations of its loop, the test of
\* a draw b32, and one iteration for the outcome drawn of randomBytes(32).
RandomIterations == 1024

randomScalarAcceptsOne(b32) ==
    bytesToNumberLE(b32) >= 1 /\ bytesToNumberLE(b32) < CURVE_n

randomScalarAccepts(b32) ==
    bytesToNumberLE(b32) > 1 /\ bytesToNumberLE(b32) < CURVE_n

\* The outcome of the call after the iteration: the draw, the error of
\* randomBytes, or None while the loop goes on.
randomScalarIteration(drawn) ==
    IF ~drawn.ok THEN drawn
    ELSE IF randomScalarAccepts(drawn.val) THEN Ok(U8(drawn.val))
    ELSE [type |-> "undefined"]

Signature(r, s) == [type |-> "Signature", r |-> r, s |-> s]

\* Signature.fromHex from the point r that Point.fromHex returned on.
Signature_fromHexScalar(bytes, r) ==
    LET s == bytesToNumberLE(sliceFrom(bytes, B32))
    IN  IF ~r.ok THEN r
        ELSE IF ~isWithinCurveOrder(s) THEN Throw("Signature.fromHex expects s <= CURVE.n")
        ELSE Ok(Signature(r.val, s))

Signature_fromHex(hex) ==
    LET conv == ensureBytes(hex)
    IN  IF ~conv.ok THEN conv
        ELSE Signature_fromHexScalar(conv.val, Point_fromHex(U8(slice(conv.val, 0, B32))))

Signature_toRawBytes(this) ==
    LET numberBytes == reverse(hexToBytes(numberToHex(this.s)).val)
        sBytes == [j \in 1..B32 |-> IF j <= Len(numberBytes) THEN numberBytes[j] ELSE 0]
    IN  IF Len(numberBytes) > B32 THEN Throw("RangeError: offset is out of bounds")
        ELSE Ok(Point_toRawBytes(this.r) \o sBytes)

(***************************************************************************)
(* The asynchronous functions (signing.ts, points.ts, hash.ts).  A call    *)
(* runs to its first await and returns a pending promise; each resumption  *)
(* runs from one await to the next, and reads the window sizes, the        *)
(* registry and the objects of the caller as they are then.  A call in     *)
(* flight is a frame: fn the function called, at the await it is suspended *)
(* in, awaited the outcome of the promise awaited there, and the arguments *)
(* and locals of the call.  at = "caller" is the await of the caller on    *)
(* the promise of the call, which has settled with awaited.  A step        *)
(* returns the frame and the registry as it leaves them.  sha512 settles   *)
(* its promise with the digest of the message as it is at the call; where  *)
(* the digest comes from crypto.subtle there is one more resumption, which *)
(* touches nothing.                                                        *)
(***************************************************************************)
Suspended(frame, reg) == [frame |-> frame, reg |-> reg]

\* getPublicKey calls Point.fromPrivateKey, which normalizes the key, calls
\* sha512 with sha512Impl and awaits it (part_000:502); getPublicKey awaits
\* the promise of Point.fromPrivateKey (signing.ts:86), rejected at once for
\* a key that is refused.
getPublicKeyCall(privateKey) ==
    LET normed == normalizePrivateKey(privateKey)
    IN  [fn |-> "getPublicKey", privateKey |-> privateKey,
         at |-> IF normed.ok THEN "Point.fromPrivateKey" ELSE "getPublicKey",
         awaited |-> IF normed.ok
                     THEN sha512(normalizedArray(privateKey, normed.val), sha512Impl)
                     ELSE normed]

\* Point.fromPrivateKey settles the promise getPublicKey awaits with key,
\* the product of Point.BASE (part_000:503).
Point_fromPrivateKeyReturn(frame, key) ==
    Suspended([frame EXCEPT !.at = "getPublicKey", !.awaited = Out(key)], key.reg)

\* Point.fromPrivateKey resumed with privBytes (part_000:502-503); key is
\* Point.BASE.multiply(encodePrivate(privBytes)) as it comes out then.
Point_fromPrivateKeyResume(frame, reg, key) ==
    IF ~frame.awaited.ok THEN Suspended([frame EXCEPT !.at = "getPublicKey"], reg)
    ELSE Point_fromPrivateKeyReturn(frame, key)

\* getPublicKey resumed with the Point key (signing.ts:86-87).
getPublicKeyResume(frame, reg) ==
    LET key == frame.awaited
    IN  IF ~key.ok THEN Suspended([frame EXCEPT !.at = "caller"], reg)
        ELSE Suspended([frame EXCEPT !.at = "caller",
                                     !.awaited = Ok(IF frame.privateKey.type = "string"
                                                    THEN Str(Point_toHex(key.val))
                                                    ELSE U8(Point_toRawBytes(key.val)))],
                       reg)

\* sign normalizes the key, calls sha512 without sha512Impl and awaits it
\* (signing.ts:93); a key that is refused rejects the promise of sign.
signCall(hash, privateKey) ==
    LET normed == normalizePrivateKey(privateKey)
    IN  [fn |-> "sign", hash |-> hash, privateKey |-> privateKey,
         at |-> IF normed.ok THEN "sign privBytes" ELSE "caller",
         awaited |-> IF normed.ok
                     THEN sha512(normalizedArray(privateKey, normed.val), FALSE)
                     ELSE normed,
         p |-> None, P |-> None, msg |-> None, r |-> None, R |-> None]

\* sign from P = BASE.multiply(p) on (signing.ts:95-97): the message, then
\* the call of sha512ToNumberLE for r.
signCallR(frame, privBytes, p, P, msg) ==
    IF ~P.ok THEN Suspended([frame EXCEPT !.at = "caller", !.awaited = Out(P)], P.reg)
    ELSE IF ~msg.ok THEN Suspended([frame EXCEPT !.at = "caller", !.awaited = msg], P.reg)
    ELSE Suspended([frame EXCEPT !.at = "sha512ToNumberLE r",
                                 !.awaited = sha512ToNumberLECall(
                                                 <<keyPrefix(privBytes), msg.val>>),
                                 !.p = p, !.P = P.val, !.msg = msg.val],
                   P.reg)

\* sign resumed with privBytes (signing.ts:93-95); P is
\* Point.BASE.multiply(encodePrivate(privBytes)) as it comes out then.
signResumePrivBytes(frame, reg, P) ==
    IF ~frame.awaited.ok THEN Suspended([frame EXCEPT !.at = "caller"], reg)
    ELSE signCallR(frame, frame.awaited.val, encodePrivate(frame.awaited.val), P,
                   ensureBytes(frame.hash))

\* sha512ToNumberLE resumed with the digest (hash.ts:56-58); it settles the
\* promise that sign (for r, then for h) or verify (for hs) awaits.
sha512ToNumberLEResumeIn(frame, reg) ==
    Suspended([frame EXCEPT !.at = IF @ = "sha512ToNumberLE r" THEN "sign r"
                                   ELSE IF @ = "sha512ToNumberLE h" THEN "sign h"
                                   ELSE "verify",
                            !.awaited = sha512ToNumberLEResume(@)],
              reg)

\* sign from R = BASE.multiply(r) on (signing.ts:98-99): the call of
\* sha512ToNumberLE for h.
signCallH(frame, r, R) ==
    IF ~R.ok THEN Suspended([frame EXCEPT !.at = "caller", !.awaited = Out(R)], R.reg)
    ELSE Suspended([frame EXCEPT !.at = "sha512ToNumberLE h",
                                 !.awaited = sha512ToNumberLECall(
                                                 <<Point_toRawBytes(R.val),
                                                   Point_toRawBytes(frame.P), frame.msg>>),
                                 !.r = r, !.R = R.val],
                   R.reg)

\* sign resumed with r (signing.ts:97-98); R is Point.BASE.multiply(r) as it
\* comes out then.
signResumeR(frame, reg, R) ==
    IF ~frame.awaited.ok THEN Suspended([frame EXCEPT !.at = "caller"], reg)
    ELSE signCallH(frame, frame.awaited.val, R)

\* sign resumed with h (signing.ts:99-102).
signResumeH(frame, reg) ==
    LET h == frame.awaited
        S == modB(frame.r + h.val * frame.p, CURVE_n)
        sig == Signature_toRawBytes(Signature(frame.R, S))
    IN  IF ~h.ok THEN Suspended([frame EXCEPT !.at = "caller"], reg)
        ELSE IF ~sig.ok THEN Suspended([frame EXCEPT !.at = "caller", !.awaited = sig], reg)
        ELSE Suspended([frame EXCEPT !.at = "caller",
                                     !.awaited = Ok(IF frame.hash.type = "string"
                                                    THEN Str(bytesToHex(sig.val))
                                                    ELSE U8(sig.val))],
                       reg)

\* The frame of verify from its decoded arguments on: msg the bytes of the
\* message, pk the point of the key and sig the Signature.  An argument that
\* does not decode rejects the promise of verify; else verify calls
\* sha512ToNumberLE and awaits it (signing.ts:115).  A Signature given as an
\* object is not copied: the frame holds the object of the caller (own is
\* FALSE), and sig is what the object was at the call.
verifyCallDecoded(signature, hash, publicKey, msg, pk, sig) ==
    IF msg.ok /\ pk.ok /\ sig.ok
    THEN [fn |-> "verify", signature |-> signature, hash |-> hash, publicKey |-> publicKey,
          at |-> "sha512ToNumberLE hs",
          awaited |-> sha512ToNumberLECall(<<Point_toRawBytes(sig.val.r),
                                             Point_toRawBytes(pk.val), msg.val>>),
          pk |-> pk.val, sig |-> sig.val, own |-> signature.type # "Signature"]
    ELSE [fn |-> "verify", signature |-> signature, hash |-> hash, publicKey |-> publicKey,
          at |-> "caller",
          awaited |-> IF ~msg.ok THEN msg ELSE IF ~pk.ok THEN pk ELSE sig,
          pk |-> None, sig |-> None, own |-> signature.type # "Signature"]

\* verify decodes the message, the public key and the signature, in this
\* order (signing.ts:106-114).
verifyCall(signature, hash, publicKey) ==
    verifyCallDecoded(signature, hash, publicKey, ensureBytes(hash),
        IF publicKey.type = "Point" THEN Ok(publicKey.v) ELSE Point_fromHex(publicKey),
        IF signature.type = "Signature" THEN Ok(signature) ELSE Signature_fromHex(signature))

\* The equation of verify for hs, the point pk and the Signature sig
\* (signing.ts:116-119).
verifyEquation(hs, pk, sig) ==
    LET pkExt == fromAffine(pk)
        Ph == multiplyUnsafe(pkExt.val, toBigInt(hs))
        Gs == multiplyUnsafe(ExtendedPoint_BASE, toBigInt(sig.s))
        rExt == fromAffine(sig.r)
        RPh == add(rExt.val, Ph.val)
        lhs == multiplyUnsafe(subtract(RPh, Gs.val), toBigInt(8))
    IN  IF ~pkExt.ok THEN pkExt
        ELSE IF ~Ph.ok THEN Ph
        ELSE IF ~Gs.ok THEN Gs
        ELSE IF ~rExt.ok THEN rExt
        ELSE Ok(equals(lhs.val, ExtendedPoint_ZERO))

\* verify resumed with hs (signing.ts:115-119); held is the Signature object
\* of the caller as it is now.
verifyResume(frame, held, reg) ==
    LET hs == frame.awaited
    IN  IF ~hs.ok THEN Suspended([frame EXCEPT !.at = "caller"], reg)
        ELSE Suspended([frame EXCEPT !.at = "caller",
                                     !.awaited = verifyEquation(hs.val, frame.pk,
                                                     IF frame.own THEN frame.sig ELSE held)],
                       reg)

\* The scalar a resumption of frame multiplies Point.BASE by: r in sign
\* (signing.ts:98), else the scalar of the private key (part_000:503,
\* signing.ts:94-95).
multiplierOf(frame) ==
    IF frame.at = "sign r" THEN frame.awaited.val ELSE encodePrivate(frame.awaited.val)

\* One resumption of the call of frame, where prod is the product of
\* Point.BASE in it.
resumeWith(frame, held, reg, prod) ==
    CASE frame.at = "Point.fromPrivateKey" -> Point_fromPrivateKeyResume(frame, reg, prod)
      [] frame.at = "getPublicKey" -> getPublicKeyResume(frame, reg)
      [] frame.at = "sign privBytes" -> signResumePrivBytes(frame, reg, prod)
      [] frame.at = "sign r" -> signResumeR(frame, reg, prod)
      [] frame.at = "sign h" -> signResumeH(frame, reg)
      [] frame.at = "verify" -> verifyResume(frame, held, reg)
      [] OTHER -> sha512ToNumberLEResumeIn(frame, reg)

\* One resumption of the call of frame with the window sizes ws and the
\* registry reg of the moment.
resume(frame, held, ws, reg) ==
    resumeWith(frame, held, reg,
               Point_multiply(Point_BASE, "BASE", toBigInt(multiplierOf(frame)), ws, reg))

(***************************************************************************)
(* The group the properties speak of: the points of                        *)
(* -x^2 + y^2 = 1 + d x^2 y^2 over GF(p) under the Edwards addition law,   *)
(* which is complete because d is not a square.  These definitions are the *)
(* mathematics the library is measured against; none of them is taken from *)
(* the library.                                                            *)
(***************************************************************************)
RECURSIVE RefPow(_, _)
RefPow(b, e) ==
    IF e = 0 THEN 1
    ELSE LET h == RefPow(b, e \div 2)
             hh == (h * h) % CURVE_P
         IN  IF e % 2 = 0 THEN hh ELSE (hh * (b % CURVE_P)) % CURVE_P

\* 1 / v, and 0 for v = 0.
RefInv(v) ==
    LET b == v % CURVE_P
    IN  IF b = 0 THEN 0 ELSE RefPow(b, CURVE_P - 2)

RefIsSquare(v) == v % CURVE_P = 0 \/ RefPow(v, (CURVE_P - 1) \div 2) = 1

RefOnCurve(p) ==
    LET x2 == (p.x * p.x) % CURVE_P
        y2 == (p.y * p.y) % CURVE_P
    IN  /\ p.x \in 0..(CURVE_P - 1)
        /\ p.y \in 0..(CURVE_P - 1)
        /\ (y2 - x2) % CURVE_P = (1 + ((CURVE_d * x2) % CURVE_P) * y2) % CURVE_P

RefIdentity == [x |-> 0, y |-> 1]

RefAdd(p, q) ==
    LET x1y2 == (p.x * q.y) % CURVE_P
        y1x2 == (p.y * q.x) % CURVE_P
        y1y2 == (p.y * q.y) % CURVE_P
        x1x2 == (p.x * q.x) % CURVE_P
        dxy == (((CURVE_d * x1x2) % CURVE_P) * y1y2) % CURVE_P
    IN  [x |-> (((x1y2 + y1x2) % CURVE_P) * RefInv(1 + dxy)) % CURVE_P,
         y |-> (((y1y2 + x1x2) % CURVE_P) * RefInv(1 - dxy)) % CURVE_P]

RefNeg(p) == [x |-> (-p.x) % CURVE_P, y |-> p.y]

\* k p by doubling and adding.
RefMulStep(k, p, h) == IF k % 2 = 0 THEN RefAdd(h, h) ELSE RefAdd(RefAdd(h, h), p)

RECURSIVE RefMul(_, _)
RefMul(k, p) ==
    IF k = 0 THEN RefIdentity
    ELSE LET h == RefMul(k \div 2, p)
         IN  IF h.x = h.x THEN RefMulStep(k, p, h) ELSE h

\* The affine point an extended point with z # 0 represents.
RefAffine(e) ==
    LET zi == RefInv(e.z)
    IN  [x |-> ((e.x % CURVE_P) * zi) % CURVE_P, y |-> ((e.y % CURVE_P) * zi) % CURVE_P]

\* Valid extended points: z # 0, (x/z, y/z) on the curve and t/z = (x/z)(y/z).
RefValid(e) ==
    /\ e.z % CURVE_P # 0
    /\ RefOnCurve(RefAffine(e))
    /\ ((e.x % CURVE_P) * (e.y % CURVE_P)) % CURVE_P
         = ((e.t % CURVE_P) * (e.z % CURVE_P)) % CURVE_P

\* The eight points of order dividing 8.
RefTorsion ==
    {[x |-> 0, y |-> 1], [x |-> 0, y |-> CURVE_P - 1],
     [x |-> SQRT_M1, y |-> 0], [x |-> CURVE_P - SQRT_M1, y |-> 0],
     [x |-> 6912, y |-> 1042], [x |-> 25837, y |-> 1042],
     [x |-> 6912, y |-> 31707], [x |-> 25837, y |-> 31707]}

(***************************************************************************)
(* Bounds of the model.                                                    *)
(***************************************************************************)
MaxShaKey == 1
MaxKey == 2
MaxMsg == 1

(***************************************************************************)
(* makeED(Ints, sha512Impl) on a platform: the instance after construction *)
(* (Point.BASE._setWindowSize(8), an empty registry).                      *)
(***************************************************************************)
makeED ==
    /\ Ints \in {"JSBI", "NativeBigInt"}
    /\ sha512Impl \in BOOLEAN
    /\ platform \in {"web", "node", "none"}
    /\ shaKey \in 0..MaxShaKey
    /\ WINDOW_SIZE = [BASE |-> 8]
    /\ pointPrecomputes = <<>>
    /\ pending = <<>>

config == <<Ints, sha512Impl, platform, shaKey, WINDOW_SIZE>>

(***************************************************************************)
(* Spec: a signer.  inp holds what the caller holds (the private key, the  *)
(* message, the public key and the signature the library returned), the    *)
(* last call that settled and the number of calls other code has made on   *)
(* Point.BASE; res is the outcome of the last call that settled.  The      *)
(* calls are asynchronous: GetPublicKey, Sign and Verify make the call,    *)
(* which runs to its first await; Resume runs a call in flight to its next *)
(* await; Settle is the await of the caller, which receives the outcome.   *)
(* Between any two of these steps other code of the program may use the    *)
(* Point.BASE of the instance (BaseMultiply, BaseSetWindowSize).  An entry *)
(* of pending is the frame of a call with what the caller held at the      *)
(* call.                                                                   *)
(***************************************************************************)
MaxPending == 1
MaxOthers == 1

PrivateKeys ==
    {U8(<<(37 * i + 5) % 256, (91 * i + 200) % 256>>) : i \in 0..MaxKey}
        \cup {Str(<<0, 3, 10, 12>>), U8(<<1>>), subarray(<<9, 5, 200, 7>>, 1, 3)}

Messages == {U8(<<>>), Str(<<6, 1>>)} \cup {U8(<<97 + m>>) : m \in 0..MaxMsg}

OtherScalars == {3}

OtherWindows == {4, 7}

Init ==
    /\ makeED
    /\ inp = [op |-> "makeED", signature |-> None, hash |-> None,
              privateKey |-> None, publicKey |-> None, others |-> 0]
    /\ res = None

\* The call is in flight from its first await on.
Called(frame) ==
    /\ Len(pending) < MaxPending
    /\ pending' = Append(pending, [frame |-> frame, held |-> inp])

\* The Signature object the caller holds, for a caller that holds one.
heldSignature == IF "S" \in DOMAIN inp THEN inp.S ELSE None

\* What the caller holds when the call of entry has settled.
settled(entry) ==
    LET frame == entry.frame
        held == [f \in DOMAIN entry.held |->
                    IF f \in {"others", "S"} THEN inp[f] ELSE entry.held[f]]
        value == IF frame.awaited.ok THEN frame.awaited.val ELSE None
    IN  IF frame.fn = "getPublicKey"
        THEN [held EXCEPT !.op = "getPublicKey", !.privateKey = frame.privateKey,
                          !.hash = None, !.publicKey = value, !.signature = None]
        ELSE IF frame.fn = "sign"
        THEN [held EXCEPT !.op = "sign", !.hash = frame.hash, !.signature = value]
        ELSE [held EXCEPT !.op = "verify", !.signature = frame.signature,
                          !.hash = frame.hash, !.publicKey = frame.publicKey]

GetPublicKey(privateKey) ==
    /\ Called(getPublicKeyCall(privateKey))
    /\ UNCHANGED <<config, pointPrecomputes, inp, res>>

Sign(hash) ==
    /\ inp.privateKey # None
    /\ Called(signCall(hash, inp.privateKey))
    /\ UNCHANGED <<config, pointPrecomputes, inp, res>>

Verify ==
    /\ inp.publicKey # None
    /\ inp.signature # None
    /\ Called(verifyCall(inp.signature, inp.hash, inp.publicKey))
    /\ UNCHANGED <<config, pointPrecomputes, inp, res>>

Resume(i) ==
    /\ i \in 1..Len(pending)
    /\ pending[i].frame.at # "caller"
    /\ \E r \in {resume(pending[i].frame, heldSignature, WINDOW_SIZE, pointPrecomputes)} :
          /\ pending' = [pending EXCEPT ![i].frame = r.frame]
          /\ pointPrecomputes' = r.reg
    /\ UNCHANGED <<config, inp, res>>

Settle(i) ==
    /\ i \in 1..Len(pending)
    /\ pending[i].frame.at = "caller"
    /\ res' = pending[i].frame.awaited
    /\ inp' = settled(pending[i])
    /\ pending' = SubSeq(pending, 1, i - 1) \o SubSeq(pending, i + 1, Len(pending))
    /\ UNCHANGED <<config, pointPrecomputes>>

\* Point.BASE.multiply(k), called by other code.
BaseMultiply(k) ==
    /\ inp.others < MaxOthers
    /\ inp' = [inp EXCEPT !.others = @ + 1]
    /\ \E prod \in {Point_multiply(Point_BASE, "BASE", toBigInt(k), WINDOW_SIZE,
                                    pointPrecomputes)} :
          pointPrecomputes' = prod.reg
    /\ UNCHANGED <<config, pending, res>>

\* Point.BASE._setWindowSize(W), called by other code.
BaseSetWindowSize(W) ==
    /\ inp.others < MaxOthers
    /\ inp' = [inp EXCEPT !.others = @ + 1]
    /\ \E set \in {Point_setWindowSize("BASE", W, WINDOW_SIZE, pointPrecomputes)} :
          /\ WINDOW_SIZE' = set.ws
          /\ pointPrecomputes' = set.reg
    /\ UNCHANGED <<Ints, sha512Impl, platform, shaKey, pending, res>>

Next ==
    \/ \E privateKey \in PrivateKeys : GetPublicKey(privateKey)
    \/ \E hash \in Messages : Sign(hash)
    \/ Verify
    \/ \E i \in 1..MaxPending : Resume(i)
    \/ \E i \in 1..MaxPending : Settle(i)
    \/ \E k \in OtherScalars : BaseMultiply(k)
    \/ \E W \in OtherWindows : BaseSetWindowSize(W)

Spec == Init /\ [][Next]_vars

(***************************************************************************)
(* Inputs of the other specifications.  Points are laid out by the         *)
(* reference group law, k * G + T for small k and every torsion point T:   *)
(* 8 * (MaxK + 1) points of the curve, in every coset of the prime-order   *)
(* subgroup.  Encodings are words of 2 * 8 bits, spread over the whole     *)
(* range with the values around p and the top of the range added.          *)
(***************************************************************************)
MaxK == 2
MaxZ == 2
MaxWord == 400
MaxHash == 40
MaxScalar == 12
MaxS == 2

RefG == [x |-> CURVE_Gx, y |-> CURVE_Gy]

CurvePoints == {RefAdd(RefMul(k, RefG), T) : k \in 0..MaxK, T \in RefTorsion}

\* The extended point (x z, y z, z, x y z) of an affine point.
RefExtended(P, z) ==
    [x |-> (P.x * z) % CURVE_P, y |-> (P.y * z) % CURVE_P, z |-> z,
     t |-> (((P.x * P.y) % CURVE_P) * z) % CURVE_P]

ExtendedPoints == {RefExtended(P, z) : P \in CurvePoints, z \in 1..MaxZ}

\* The B32 bytes of a word, least significant first, and its hex digits.
WordBytes(w) == <<w % 256, (w \div 256) % 256>>
WordHex(w) == <<(w \div 16) % 16, w % 16, (w \div 4096) % 16, (w \div 256) % 16>>

Words ==
    {(k * 163) % 65536 : k \in 0..MaxWord}
        \cup (CURVE_P - 2)..(CURVE_P + 2)
        \cup {Pow2(N255) - 1, Pow2(N255) + CURVE_P - 1, Pow2(N255) + CURVE_P, 65535}

\* The encoding of an affine point (RFC 8032 5.1.2): y, little-endian, with
\* the parity of x in the top bit.
RefEncode(P) == <<P.y % 256, (P.y \div 256) + 128 * (P.x % 2)>>

\* Inputs that are not B32 bytes long, and hex strings of odd length.
WrongLength ==
    {U8(<<>>), U8(<<12>>), U8(<<12, 0, 0>>), Str(<<>>), Str(<<0, 12>>),
     Str(<<0, 12, 0, 0, 0, 0>>)}

OddHex == {Str(<<12>>), Str(<<0, 12, 0>>), Str(<<0, 12, 0, 0, 0>>)}

\* An instance whose SHA-512 is available; Ints is either backend.
makeEDFixedSha ==
    /\ Ints \in {"JSBI", "NativeBigInt"}
    /\ sha512Impl = TRUE
    /\ platform = "node"
    /\ shaKey = 0
    /\ WINDOW_SIZE = [BASE |-> 8]
    /\ pointPrecomputes = <<>>
    /\ pending = <<>>

(***************************************************************************)
(* SpecPoint: encoding and decoding affine points.  A point of the curve   *)
(* is encoded and the encoding decoded again; any input is decoded.  In    *)
(* this and the following specifications a behaviour is one use of a fresh *)
(* instance: the first call is made while res is still None.               *)
(***************************************************************************)
HexInputs ==
    {U8(WordBytes(w)) : w \in Words} \cup {Str(WordHex(w)) : w \in Words}
        \cup WrongLength \cup OddHex

InitPoint ==
    /\ makeEDFixedSha
    /\ inp = [op |-> "makeED", point |-> None, hash |-> None]
    /\ res = None

ToRawBytes(P) ==
    /\ res = None
    /\ inp' = [op |-> "toRawBytes", point |-> P, hash |-> None]
    /\ res' = Ok(U8(Point_toRawBytes(P)))
    /\ UNCHANGED <<config, pointPrecomputes, pending>>

FromHexEncoded ==
    /\ inp.op = "toRawBytes"
    /\ inp' = [op |-> "fromHex", point |-> inp.point, hash |-> res.val]
    /\ res' = Point_fromHex(res.val)
    /\ UNCHANGED <<config, pointPrecomputes, pending>>

FromHex(hash) ==
    /\ res = None
    /\ inp' = [op |-> "fromHex", point |-> None, hash |-> hash]
    /\ res' = Point_fromHex(hash)
    /\ UNCHANGED <<config, pointPrecomputes, pending>>

NextPoint ==
    \/ \E P \in CurvePoints : ToRawBytes(P)
    \/ FromHexEncoded
    \/ \E hash \in HexInputs : FromHex(hash)

SpecPoint == InitPoint /\ [][NextPoint]_vars

(***************************************************************************)
(* SpecEquals: comparing two extended points.                              *)
(***************************************************************************)
InitEquals ==
    /\ makeEDFixedSha
    /\ inp = [op |-> "makeED", a |-> None, b |-> None]
    /\ res = None

Equals(a, b) ==
    /\ res = None
    /\ inp' = [op |-> "equals", a |-> a, b |-> b]
    /\ res' = Ok(equals(a, b))
    /\ UNCHANGED <<config, pointPrecomputes, pending>>

RistrettoEquals(a, b) ==
    /\ res = None
    /\ inp' = [op |-> "ristrettoEquals", a |-> a, b |-> b]
    /\ res' = Ok(ristrettoEquals(a, b))
    /\ UNCHANGED <<config, pointPrecomputes, pending>>

NextEquals ==
    \/ \E a \in ExtendedPoints, b \in ExtendedPoints : Equals(a, b)
    \/ \E a \in ExtendedPoints, b \in ExtendedPoints : RistrettoEquals(a, b)

SpecEquals == InitEquals /\ [][NextEquals]_vars

(***************************************************************************)
(* SpecRistretto: a point made by fromRistrettoHash or as a multiple of    *)
(* BASE is encoded and the encoding decoded; any input is decoded and,     *)
(* when that succeeds, encoded again.                                      *)
(***************************************************************************)
Hashes ==
    {<<(37 * k) % 256, (91 * k + 5) % 256, (59 * k + 1) % 256, (113 * k + 7) % 256>> :
        k \in 0..MaxHash}

RistrettoInputs ==
    {WordBytes(w) : w \in Words} \cup {<<>>, <<12>>, <<12, 0, 0>>, <<0, 0, 0>>}

InitRistretto ==
    /\ makeEDFixedSha
    /\ inp = [op |-> "makeED", point |-> None, bytes |-> None]
    /\ res = None

FromRistrettoHash(hash) ==
    /\ res = None
    /\ \E E \in {fromRistrettoHash(hash)} :
        /\ inp' = [op |-> "fromRistrettoHash", point |-> E, bytes |-> None]
        /\ res' = Ok(E)
        /\ UNCHANGED <<config, pointPrecomputes, pending>>

MultiplyUnsafe(scalar) ==
    /\ res = None
    /\ \E r \in {multiplyUnsafe(ExtendedPoint_BASE, toBigInt(scalar))} :
        /\ inp' = [op |-> "multiplyUnsafe", point |-> IF r.ok THEN r.val ELSE None,
                   bytes |-> None]
        /\ res' = r
        /\ UNCHANGED <<config, pointPrecomputes, pending>>

ToRistrettoBytes ==
    /\ inp.op \in {"fromRistrettoHash", "multiplyUnsafe"}
    /\ inp.point # None
    /\ \E bytes \in {toRistrettoBytes(inp.point)} :
        /\ inp' = [op |-> "toRistrettoBytes", point |-> inp.point, bytes |-> bytes]
        /\ res' = Ok(bytes)
    /\ UNCHANGED <<config, pointPrecomputes, pending>>

FromRistrettoBytesEncoded ==
    /\ inp.op = "toRistrettoBytes"
    /\ inp' = [inp EXCEPT !.op = "fromRistrettoBytes"]
    /\ res' = fromRistrettoBytes(inp.bytes)
    /\ UNCHANGED <<config, pointPrecomputes, pending>>

FromRistrettoBytes(bytes) ==
    /\ res = None
    /\ inp' = [op |-> "fromRistrettoBytes", point |-> None, bytes |-> bytes]
    /\ res' = fromRistrettoBytes(bytes)
    /\ UNCHANGED <<config, pointPrecomputes, pending>>

ToRistrettoBytesDecoded ==
    /\ inp.op = "fromRistrettoBytes"
    /\ inp.point = None
    /\ res.ok
    /\ inp' = [op |-> "toRistrettoBytes", point |-> None, bytes |-> inp.bytes]
    /\ res' = Ok(toRistrettoBytes(res.val))
    /\ UNCHANGED <<config, pointPrecomputes, pending>>

NextRistretto ==
    \/ \E hash \in Hashes : FromRistrettoHash(hash)
    \/ \E scalar \in 1..MaxScalar : MultiplyUnsafe(scalar)
    \/ ToRistrettoBytes
    \/ FromRistrettoBytesEncoded
    \/ \E bytes \in RistrettoInputs : FromRistrettoBytes(bytes)
    \/ ToRistrettoBytesDecoded

SpecRistretto == InitRistretto /\ [][NextRistretto]_vars

(***************************************************************************)
(* SpecVerify: a verifier.  Signatures and public keys arrive from         *)
(* outside: any point of CurvePoints as R and as the key, the scalars      *)
(* around 0 and around the group order as s.  A signature is decoded with  *)
(* Signature.fromHex or verified; the Signature object that was decoded    *)
(* (inp.S) may be verified in turn, and is the caller's to write while the *)
(* call is in flight.  The steps of a call are those of Spec.              *)
(***************************************************************************)
Scalars == (0..MaxS) \cup ((CURVE_n - MaxS)..(CURVE_n + MaxS)) \cup {65535}

PointEncodings == {RefEncode(P) : P \in CurvePoints}

SignatureInputs ==
    {U8(R \o WordBytes(s)) : R \in PointEncodings \cup {<<2, 0>>, <<255, 127>>},
                             s \in Scalars}
        \cup {Str(bytesToHex(R \o WordBytes(s))) : R \in {RefEncode(RefG)}, s \in Scalars}
        \cup WrongLength \cup OddHex

ReceivedSignatures == {U8(R \o WordBytes(s)) : R \in PointEncodings, s \in 0..(MaxS + 1)}

\* What the caller does with a Signature object it holds: the values written
\* to its field s, and the message and key it is verified with.
WrittenScalars == {1}

HeldMessages == {U8(<<97>>)}

HeldKeys == {U8(RefEncode(RefG)), U8(<<0, 0>>)}

InitVerify ==
    /\ makeEDFixedSha
    /\ inp = [op |-> "makeED", signature |-> None, hash |-> None, publicKey |-> None,
              S |-> None, others |-> 0]
    /\ res = None

\* S = Signature.fromHex(hex): the caller holds the object returned.
SignatureFromHex(hex) ==
    /\ res = None
    /\ pending = <<>>
    /\ \E S \in {Signature_fromHex(hex)} :
          /\ inp' = [inp EXCEPT !.op = "Signature.fromHex", !.signature = hex,
                                !.S = IF S.ok THEN S.val ELSE None]
          /\ res' = S
    /\ UNCHANGED <<config, pointPrecomputes, pending>>

VerifyReceived(signature, hash, publicKey) ==
    /\ res = None
    /\ Called(verifyCall(signature, hash, publicKey))
    /\ UNCHANGED <<config, pointPrecomputes, inp, res>>

\* verify(S, hash, publicKey) with the object S that Signature.fromHex returned.
VerifyHeld(hash, publicKey) ==
    /\ inp.op = "Signature.fromHex"
    /\ inp.S # None
    /\ Called(verifyCall(inp.S, hash, publicKey))
    /\ UNCHANGED <<config, pointPrecomputes, inp, res>>

\* S.s = s, written by the caller while a call that was given S is in flight.
WriteSignature(s) ==
    /\ inp.S # None
    /\ inp.S.s # s
    /\ \E i \in 1..Len(pending) : ~pending[i].frame.own
    /\ inp' = [inp EXCEPT !.S.s = s]
    /\ UNCHANGED <<config, pointPrecomputes, pending, res>>

\* A signature, a message and a public key arrive on a fresh instance and
\* are verified.
Receive ==
    /\ res = None
    /\ pending = <<>>
    /\ \E signature \in ReceivedSignatures, hash \in Messages, P \in PointEncodings :
          VerifyReceived(signature, hash, U8(P))

\* Point.BASE.multiply(k), called by the caller that holds a Signature while
\* its call of verify is in flight.
MultiplyWhileHeld(k) ==
    /\ \E i \in 1..Len(pending) : ~pending[i].frame.own
    /\ BaseMultiply(k)

NextVerify ==
    \/ \E hex \in SignatureInputs : SignatureFromHex(hex)
    \/ Receive
    \/ \E hash \in HeldMessages, publicKey \in HeldKeys : VerifyHeld(hash, publicKey)
    \/ \E s \in WrittenScalars : WriteSignature(s)
    \/ \E i \in 1..MaxPending : Resume(i)
    \/ \E i \in 1..MaxPending : Settle(i)
    \/ \E k \in OtherScalars : MultiplyWhileHeld(k)

SpecVerify == InitVerify /\ [][NextVerify]_vars

(***************************************************************************)
(* SpecScalar: scalar multiplication of extended points.  A point is       *)
(* multiplied by a scalar with multiply (wNAF, no affine point given) or   *)
(* with multiplyUnsafe; the product of multiply is then multiplied again,  *)
(* or added to a second product of the same point.  multiply is also       *)
(* called with its second argument, the affine point whose window size and *)
(* table wNAF works with: the Point.BASE of the instance, which is then    *)
(* multiplied itself.  In these calls the scalar is a bigint of the        *)
(* backend of the instance; multiply and multiplyUnsafe are also called    *)
(* with a scalar of another type: a number, safe integer or not, or a      *)
(* bigint of the other backend.                                            *)
(***************************************************************************)
MaxA == 3

ScalarInputs == (1..MaxA) \cup {CURVE_n - 1, CURVE_n, CURVE_n + 1}

BadScalars == {0, -1, -CURVE_n}

\* The points multiplied with Point.BASE as the affine point, and the
\* scalars Point.BASE is multiplied by afterwards.
AffinePointCallers == {RefExtended(RefMul(k, RefG), 1) : k \in 1..MaxA}

AfterScalars == {1, 3}

\* Scalars by type: the numbers -1, 0, 1, 2, 2 written as 4 * 2^-1, 2^53,
\* -2^53, 1.5 and -1.5, and the bigints -1, 0, 1, 2 of either kind.
ScalarValues ==
    {Num(n) : n \in -1..2}
        \cup {Number(4, -1), Number(1, 53), Number(-1, 53), Number(3, -1), Number(-3, -1)}
        \cup {BigIntOf(kind, n) : kind \in {"bigint", "JSBI"}, n \in -1..2}

ScalarPoints == {ExtendedPoint_BASE, RefExtended(RefMul(2, RefG), 3)}

InitScalar ==
    /\ makeEDFixedSha
    /\ inp = [op |-> "makeED", point |-> None, a |-> None, b |-> None,
              affinePoint |-> None]
    /\ res = None

\* P.multiply(scalar, affinePoint); affinePoint is "none" where the argument
\* is not given, else the Point object whose window size and table wNAF
\* works with: it stores the table of P under affinePoint where it finds
\* none (part_000:349-362).
ExtMultiply(P, scalar, affinePoint) ==
    /\ res = None
    /\ affinePoint # "none" => P \in AffinePointCallers
    /\ inp' = [op |-> "multiply", point |-> P, a |-> scalar, b |-> None,
               affinePoint |-> affinePoint]
    /\ \E prod \in {multiply(P, toBigInt(scalar), affinePoint, WINDOW_SIZE,
                              pointPrecomputes)} :
          /\ res' = Out(prod)
          /\ pointPrecomputes' = prod.reg
    /\ UNCHANGED <<config, pending>>

ExtMultiplyUnsafe(P, scalar) ==
    /\ res = None
    /\ inp' = [op |-> "multiplyUnsafe", point |-> P, a |-> scalar, b |-> None,
               affinePoint |-> None]
    /\ res' = multiplyUnsafe(P, toBigInt(scalar))
    /\ UNCHANGED <<config, pointPrecomputes, pending>>

\* P.multiply(scalar) for a scalar of any type.
ExtMultiplyValue(P, scalar) ==
    /\ res = None
    /\ inp' = [op |-> "multiply(value)", point |-> P, a |-> scalar, b |-> None,
               affinePoint |-> None]
    /\ \E prod \in {multiply(P, scalar, "none", WINDOW_SIZE, pointPrecomputes)} :
          /\ res' = Out(prod)
          /\ pointPrecomputes' = prod.reg
    /\ UNCHANGED <<config, pending>>

\* P.multiplyUnsafe(scalar) for a scalar of any type, but a number that
\* passes the validation on an instance over JSBI (multiplyUnsafeOfNumber).
ExtMultiplyUnsafeValue(P, scalar) ==
    /\ res = None
    /\ (scalar.type = "number" /\ Ints = "JSBI") => ~isValidScalar(scalar)
    /\ inp' = [op |-> "multiplyUnsafe(value)", point |-> P, a |-> scalar, b |-> None,
               affinePoint |-> None]
    /\ res' = multiplyUnsafe(P, scalar)
    /\ UNCHANGED <<config, pointPrecomputes, pending>>

\* P.multiply(b).multiply(a), from the state after P.multiply(b).
ExtMultiplyAgain(scalar) ==
    /\ inp.op = "multiply"
    /\ inp.affinePoint = "none"
    /\ res.ok
    /\ inp' = [inp EXCEPT !.op = "multiplyMultiply", !.a = scalar, !.b = inp.a]
    /\ res' = Out(multiply(res.val, toBigInt(scalar), "none", WINDOW_SIZE,
                        pointPrecomputes))
    /\ UNCHANGED <<config, pointPrecomputes, pending>>

\* P.multiply(a).add(P.multiply(b)), from the state after P.multiply(a).
ExtMultiplyAdd(scalar) ==
    /\ inp.op = "multiply"
    /\ inp.affinePoint = "none"
    /\ res.ok
    /\ inp' = [inp EXCEPT !.op = "multiplyAdd", !.b = scalar]
    /\ \E other \in {multiply(inp.point, toBigInt(scalar), "none", WINDOW_SIZE,
                               pointPrecomputes)} :
          res' = IF other.ok THEN Ok(add(res.val, other.val)) ELSE Out(other)
    /\ UNCHANGED <<config, pointPrecomputes, pending>>

\* Point.BASE.multiply(k), from the state after P.multiply(a, Point.BASE).
BaseMultiplyAfter(k) ==
    /\ inp.op = "multiply"
    /\ inp.affinePoint = "BASE"
    /\ inp' = [inp EXCEPT !.op = "Point.multiply", !.a = k, !.b = inp.a]
    /\ \E prod \in {Point_multiply(Point_BASE, "BASE", toBigInt(k), WINDOW_SIZE,
                                    pointPrecomputes)} :
          /\ res' = Out(prod)
          /\ pointPrecomputes' = prod.reg
    /\ UNCHANGED <<config, pending>>

NextScalar ==
    \/ \E P \in ExtendedPoints, scalar \in ScalarInputs \cup BadScalars,
          affinePoint \in {"none", "BASE"} : ExtMultiply(P, scalar, affinePoint)
    \/ \E P \in ExtendedPoints, scalar \in ScalarInputs \cup BadScalars :
          ExtMultiplyUnsafe(P, scalar)
    \/ \E P \in ScalarPoints, scalar \in ScalarValues : ExtMultiplyValue(P, scalar)
    \/ \E P \in ScalarPoints, scalar \in ScalarValues : ExtMultiplyUnsafeValue(P, scalar)
    \/ \E scalar \in ScalarInputs : ExtMultiplyAgain(scalar)
    \/ \E scalar \in ScalarInputs : ExtMultiplyAdd(scalar)
    \/ \E k \in AfterScalars : BaseMultiplyAfter(k)

SpecScalar == InitScalar /\ [][NextScalar]_vars

(***************************************************************************)
(* SpecWindow: window sizes and the registry of precomputed tables.  The   *)
(* caller holds Point.BASE, a point P made with new Point and the point Q  *)
(* that Point.precompute last returned as a clone; inp.P and inp.Q are     *)
(* their coordinates.  Any of these is given a window size, precomputed or *)
(* multiplied, MaxCalls times in a run.                                    *)
(***************************************************************************)
MaxCalls == 2
MaxP == 2

WindowPoints == {RefMul(k, RefG) : k \in 1..MaxP} \cup {[x |-> 0, y |-> CURVE_P - 1]}

Windows == {1, 2, 4, 8}

BadWindows == {0, 7, -1}

WindowScalars == {1, CURVE_n - 4}

Objects == {"BASE"} \cup (IF inp.P = None THEN {} ELSE {"P"})
                    \cup (IF inp.Q = None THEN {} ELSE {"Q"})

coordinates(obj) ==
    IF obj = "BASE" THEN Point_BASE ELSE IF obj = "P" THEN inp.P ELSE inp.Q

InitWindow ==
    /\ makeEDFixedSha
    /\ inp = [op |-> "makeED", obj |-> None, W |-> None, k |-> None,
              P |-> None, Q |-> None, calls |-> 0]
    /\ res = None

NewPoint(point) ==
    /\ res = None
    /\ inp' = [inp EXCEPT !.op = "new Point", !.obj = "P", !.P = PointXY(point.x, point.y)]
    /\ res' = Ok(PointXY(point.x, point.y))
    /\ UNCHANGED <<config, pointPrecomputes, pending>>

SetWindowSize(obj, W) ==
    /\ inp.calls < MaxCalls
    /\ obj \in Objects
    /\ inp' = [inp EXCEPT !.op = "_setWindowSize", !.obj = obj, !.W = W, !.k = None,
                          !.calls = @ + 1]
    /\ \E set \in {Point_setWindowSize(obj, W, WINDOW_SIZE, pointPrecomputes)} :
          /\ WINDOW_SIZE' = set.ws
          /\ pointPrecomputes' = set.reg
    /\ res' = Ok(None)
    /\ UNCHANGED <<Ints, sha512Impl, platform, shaKey, pending>>

Multiply(obj, k) ==
    /\ inp.calls < MaxCalls
    /\ obj \in Objects
    /\ inp' = [inp EXCEPT !.op = "multiply", !.obj = obj, !.W = None, !.k = k,
                          !.calls = @ + 1]
    /\ \E prod \in {Point_multiply(coordinates(obj), obj, toBigInt(k), WINDOW_SIZE,
                                    pointPrecomputes)} :
          /\ res' = Out(prod)
          /\ pointPrecomputes' = prod.reg
    /\ UNCHANGED <<config, pending>>

\* Point.precompute(W, obj).  For a point that is not Point.BASE the call
\* makes a new Point: when it returns, the caller holds that clone as Q in
\* place of the one it held; when it throws, the new clone is lost with the
\* error and the clone returned earlier, its window size and its table stay
\* as they are.
Precompute(W, obj) ==
    /\ inp.calls < MaxCalls
    /\ obj \in Objects
    /\ \E cached \in {Point_precomputeCached(coordinates(obj), obj, "Q")},
          pre \in {Point_precompute(W, coordinates(obj), obj, "Q",
                                    WINDOW_SIZE, pointPrecomputes)} :
          /\ inp' = [inp EXCEPT !.op = "precompute", !.obj = obj, !.W = W, !.k = None,
                                !.calls = @ + 1,
                                !.Q = IF cached = "Q" /\ pre.ok THEN coordinates(obj)
                                      ELSE @]
          /\ \E set \in {Point_setWindowSize(cached, W, WINDOW_SIZE, pointPrecomputes)} :
                IF cached = "Q" /\ ~pre.ok
                THEN /\ WINDOW_SIZE' = WINDOW_SIZE
                     /\ pointPrecomputes' = pointPrecomputes
                ELSE /\ WINDOW_SIZE' = set.ws
                     /\ pointPrecomputes' = pre.reg
          /\ res' = Out(pre)
    /\ UNCHANGED <<Ints, sha512Impl, platform, shaKey, pending>>

NextWindow ==
    \/ \E point \in WindowPoints : NewPoint(point)
    \/ \E W \in Windows \cup BadWindows : SetWindowSize("P", W)
    \/ \E obj \in {"BASE", "P", "Q"}, k \in WindowScalars : Multiply(obj, k)
    \/ \E obj \in {"BASE", "P"}, W \in Windows \cup BadWindows : Precompute(W, obj)

SpecWindow == InitWindow /\ [][NextWindow]_vars

(***************************************************************************)
(* SpecRandom: utils.randomPrivateKey.  The loop of randomScalar is taken  *)
(* one iteration at a time, each with what randomBytes(32) returns: B32    *)
(* bytes, or its error where the environment has no random source (at the  *)
(* first call, since the environment does not change during the loop).     *)
(* inp.i is the loop's counter; inp.draws and inp.rejected count the calls *)
(* of randomBytes and the draws the loop went past.  SpecRandomFair adds   *)
(* that the loop, once entered, runs on: it is synchronous code.           *)
(***************************************************************************)
MaxDraw == 2

DrawWords == (0..MaxDraw) \cup {CURVE_n - 1, CURVE_n, 65535}

randomBytes ==
    {Ok(WordBytes(w)) : w \in DrawWords}
        \cup {Throw("The environment doesn't have randomBytes function")}

InitRandom ==
    /\ makeEDFixedSha
    /\ inp = [op |-> "makeED", i |-> None, b32 |-> None, draws |-> 0, rejected |-> 0]
    /\ res = None

RandomPrivateKey ==
    /\ inp.op = "makeED"
    /\ inp' = [inp EXCEPT !.op = "randomPrivateKey", !.i = RandomIterations]
    /\ res' = None
    /\ UNCHANGED <<config, pointPrecomputes, pending>>

\* One iteration: while (i--) { b32 = randomBytes(32); ... return b32 }
RandomDraw(drawn) ==
    /\ inp.op = "randomPrivateKey"
    /\ res = None
    /\ inp.i # 0
    /\ ~drawn.ok => inp.draws = 0
    /\ inp' = [inp EXCEPT !.i = @ - 1,
                          !.b32 = IF drawn.ok THEN drawn.val ELSE None,
                          !.draws = @ + 1,
                          !.rejected = IF drawn.ok /\ ~randomScalarAccepts(drawn.val)
                                       THEN @ + 1 ELSE @]
    /\ res' = randomScalarIteration(drawn)
    /\ UNCHANGED <<config, pointPrecomputes, pending>>

\* The loop ends: while (i--) finds i = 0 and the error is thrown.
RandomExhausted ==
    /\ inp.op = "randomPrivateKey"
    /\ res = None
    /\ inp.i = 0
    /\ inp' = [inp EXCEPT !.i = @ - 1]
    /\ res' = Throw("Valid private key was not found in 1024 iterations. PRNG is broken")
    /\ UNCHANGED <<config, pointPrecomputes, pending>>

RandomLoop == (\E drawn \in randomBytes : RandomDraw(drawn)) \/ RandomExhausted

NextRandom ==
    \/ RandomPrivateKey
    \/ \E drawn \in randomBytes : RandomDraw(drawn)
    \/ RandomExhausted

SpecRandom == InitRandom /\ [][NextRandom]_vars

SpecRandomFair == SpecRandom /\ WF_vars(RandomLoop)

(***************************************************************************)
(* SpecKey: normalizePrivateKey on the kinds of private key: an integer    *)
(* (a number or a bigint), a byte array and a hex string.  The integers    *)
(* are spread over 0..2^N256 with the ends of the range and values outside *)
(* it, and are given as numbers and as bigints of either backend; the      *)
(* numbers include some that are not safe integers; the byte arrays and    *)
(* hex strings are B32 bytes long or not.                                  *)
(***************************************************************************)
MaxKeyNumber == 40

KeyNumbers ==
    {(k * 997) % Pow2(N256) : k \in 0..MaxKeyNumber}
        \cup {-Pow2(N256), -1, 255, 256, Pow2(N256) - 1, Pow2(N256), Pow2(N256) + 1,
              2 * Pow2(N256)}

KeyBytes ==
    {U8(WordBytes(n)) : n \in KeyNumbers \cap (0..(Pow2(N256) - 1))}
        \cup {Str(WordHex(n)) : n \in KeyNumbers \cap (0..(Pow2(N256) - 1))}
        \cup WrongLength

\* Integers given as a bigint, primitive or of JSBI, whichever backend the
\* instance has.
KeyBigInts == {-1, 0, 255, 256, Pow2(N256) - 1, Pow2(N256), Pow2(N256) + 1}

\* Numbers that are not safe integers (2^53, -2^53, 1.5, -1.5) and the value
\* undefined.
KeyOthers == {Number(1, 53), Number(-1, 53), Number(3, -1), Number(-3, -1), None}

InitKey ==
    /\ makeEDFixedSha
    /\ inp = [op |-> "makeED", key |-> None]
    /\ res = None

NormalizePrivateKey(key) ==
    /\ res = None
    /\ inp' = [op |-> "normalizePrivateKey", key |-> key]
    /\ res' = normalizePrivateKey(key)
    /\ UNCHANGED <<config, pointPrecomputes, pending>>

NextKey ==
    \/ \E n \in KeyNumbers : NormalizePrivateKey(Num(n))
    \/ \E kind \in {"bigint", "JSBI"}, n \in KeyBigInts :
          NormalizePrivateKey(BigIntOf(kind, n))
    \/ \E key \in KeyBytes \cup KeyOthers : NormalizePrivateKey(key)

SpecKey == InitKey /\ [][NextKey]_vars

(***************************************************************************)
(* SpecFunctions: the functions of serialization.ts and math.ts and the    *)
(* arithmetic of ExtendedPoint, each called once on a fresh instance.      *)
(* inp.a and inp.b are the arguments of the call; after a call on an array *)
(* inp.b is the array as the call left it.                                 *)
(***************************************************************************)
MaxN == 40
MaxLen == 3
MaxInv == 20
MaxU == 20
MaxBatch == 3

Numbers ==
    (0..MaxN) \cup {255, 256, 257, 4095, 4096, 65535, 65536, 65537,
                    Pow2(24) - 1, Pow2(24)}

Moduli == (-1..MaxInv) \cup {CURVE_n, CURVE_P}

FieldSamples ==
    (0..MaxU) \cup {SQRT_M1, CURVE_d, CURVE_P - SQRT_M1, CURVE_P - 2, CURVE_P - 1}

\* Objects handed to fromAffine: the affine points, and objects that carry
\* z and t as well (zero or not).
AffineInputs ==
    CurvePoints \cup ExtendedPoints
        \cup {ExtendedPoint(P.x, P.y, 0, 0) : P \in CurvePoints}

BatchValues == {0, 1, 2, CURVE_P - 1}

BatchNumbers ==
    UNION {[1..len -> BatchValues] : len \in 0..MaxBatch}

BatchPoints ==
    {RefExtended(P, z) :
        P \in {RefIdentity, RefG, [x |-> SQRT_M1, y |-> 0]}, z \in 1..(MaxZ + 1)}

BatchArrays == UNION {[1..len -> BatchPoints] : len \in 0..(MaxBatch - 1)}

InitFunctions ==
    /\ makeEDFixedSha
    /\ inp = [op |-> "makeED", a |-> None, b |-> None]
    /\ res = None

NumberToBytesPadded(num, length) ==
    /\ res = None
    /\ inp' = [op |-> "numberToBytesPadded", a |-> num, b |-> length]
    /\ res' = Ok(numberToBytesPadded(num, length))
    /\ UNCHANGED <<config, pointPrecomputes, pending>>

SerializeNumber(n) ==
    /\ res = None
    /\ inp' = [op |-> "serializeNumber", a |-> n, b |-> None]
    /\ res' = Ok(serializeNumber(n))
    /\ UNCHANGED <<config, pointPrecomputes, pending>>

Invert(number, modulo) ==
    /\ res = None
    /\ inp' = [op |-> "invert", a |-> number, b |-> modulo]
    /\ res' = invert(number, modulo)
    /\ UNCHANGED <<config, pointPrecomputes, pending>>

\* invertBatch writes the inverses into nums and returns nums; when invert
\* raises, nums is as it was.
InvertBatch(nums, n) ==
    /\ res = None
    /\ \E r \in {invertBatchCalls(nums, n)} :
          /\ inp' = [op |-> "invertBatch", a |-> nums,
                     b |-> IF r.out.ok THEN r.out.val ELSE nums,
                     inverts |-> r.inverts]
          /\ res' = r.out
    /\ UNCHANGED <<config, pointPrecomputes, pending>>

UvRatio(u, v) ==
    /\ res = None
    /\ inp' = [op |-> "uvRatio", a |-> u, b |-> v]
    /\ res' = Ok(uvRatio(u, v))
    /\ UNCHANGED <<config, pointPrecomputes, pending>>

FromAffine(p) ==
    /\ res = None
    /\ inp' = [op |-> "fromAffine", a |-> p, b |-> None]
    /\ res' = fromAffine(p)
    /\ UNCHANGED <<config, pointPrecomputes, pending>>

Add(this, other) ==
    /\ res = None
    /\ inp' = [op |-> "add", a |-> this, b |-> other]
    /\ res' = Ok(add(this, other))
    /\ UNCHANGED <<config, pointPrecomputes, pending>>

\* toAffineBatch and normalizeZ: inp.b is the array points of the caller as
\* the call leaves it.
ToAffineBatch(points) ==
    /\ res = None
    /\ \E r \in {toAffineBatchArrays(points)} :
          /\ inp' = [op |-> "toAffineBatch", a |-> points, b |-> r.arrays.points]
          /\ res' = r.out
    /\ UNCHANGED <<config, pointPrecomputes, pending>>

NormalizeZ(points) ==
    /\ res = None
    /\ \E r \in {toAffineBatchArrays(points)} :
          /\ inp' = [op |-> "normalizeZ", a |-> points, b |-> r.arrays.points]
          /\ res' = normalizeZAffine(r.out)
    /\ UNCHANGED <<config, pointPrecomputes, pending>>

NextFunctions ==
    \/ \E num \in Numbers, length \in 0..MaxLen : NumberToBytesPadded(num, length)
    \/ \E n \in Numbers : SerializeNumber(n)
    \/ \E number \in (-MaxInv)..MaxInv, modulo \in Moduli : Invert(number, modulo)
    \/ \E nums \in BatchNumbers : InvertBatch(nums, CURVE_P)
    \/ \E u \in FieldSamples, v \in FieldSamples : UvRatio(u, v)
    \/ \E p \in AffineInputs : FromAffine(p)
    \/ \E this \in ExtendedPoints, other \in ExtendedPoints : Add(this, other)
    \/ \E points \in BatchArrays : ToAffineBatch(points)
    \/ \E points \in BatchArrays : NormalizeZ(points)

SpecFunctions == InitFunctions /\ [][NextFunctions]_vars

(***************************************************************************)
(* SpecWNAF: the windowed multiplication.  A point P is made with new      *)
(* Point, given a window size and multiplied by a scalar.                  *)
(***************************************************************************)
MaxD == 40

\* Multiples of the base point, and a point of order 8.
WNAFPoints == {RefMul(k, RefG) : k \in 1..MaxP} \cup {[x |-> 6912, y |-> 1042]}

WNAFScalars ==
    (1..MaxD) \cup {127, 128, 129, 255, 256, 257, 2047, 2048, 3855, 4095,
                    CURVE_n - 2, CURVE_n - 1, CURVE_n, CURVE_n + 1}

\* P._setWindowSize(W) on the point just made, and P.multiply(k) after it.
SetWindowSizeOfNew(W) == inp.op = "new Point" /\ SetWindowSize("P", W)

MultiplyWindowed(k) == inp.op = "_setWindowSize" /\ Multiply("P", k)

NextWNAF ==
    \/ \E point \in WNAFPoints : NewPoint(point)
    \/ \E W \in Windows : SetWindowSizeOfNew(W)
    \/ \E k \in WNAFScalars : MultiplyWindowed(k)

SpecWNAF == InitWindow /\ [][NextWNAF]_vars

(***************************************************************************)
(* Properties.  The first four are stated of the signer (Spec) and of the  *)
(* verifier (SpecVerify), the others of the point specifications.          *)
(***************************************************************************)
\* The private key of the run is one that normalizePrivateKey accepts.
KeyAccepted == inp.privateKey # None /\ normalizePrivateKey(inp.privateKey).ok

\* C1: for every private key that normalizePrivateKey accepts and every
\* message, on an instance that has a SHA-512 (injected, or the platform's)
\* and whose Point.BASE no other code has used, getPublicKey and sign
\* succeed and verify of the signature, the message and the public key
\* returns true.
C1_SignVerifyRoundTrip ==
    ((sha512Impl \/ platformSha) /\ inp.others = 0) =>
        /\ (inp.op \in {"getPublicKey", "sign"} /\ KeyAccepted => res.ok)
        /\ (inp.op = "verify" => res = Ok(TRUE))

\* The signature and the public key that verify decoded, and hs.
DecodedSignature == Signature_fromHex(inp.signature)
DecodedPublicKey == Point_fromHex(inp.publicKey)
DecodedHs ==
    sha512ToNumberLE(<<Point_toRawBytes(DecodedSignature.val.r),
                       Point_toRawBytes(DecodedPublicKey.val), ensureBytes(inp.hash).val>>).val

\* Whether 8 (R + hs P - S BASE) is the identity of the group.
RefVerifyEquation(R, S, P, hs) ==
    \E hP \in {RefMul(hs, P)} : \E SG \in {RefMul(S, RefG)} :
        \E sum \in {RefAdd(RefAdd(R, hP), RefNeg(SG))} :
            RefMul(CURVE_h, sum) = RefIdentity

\* C2: whenever the encoded signature and the public key decode, verify
\* returns true exactly when 8 (R + hs P - S BASE) is the identity of the
\* group, and false otherwise.
C2_VerifyIsGroupEquation ==
    (/\ inp.op = "verify"
     /\ inp.signature.type # "Signature"
     /\ DecodedSignature.ok
     /\ DecodedPublicKey.ok) =>
        \E sig \in {DecodedSignature.val} : \E P \in {DecodedPublicKey.val} :
            \E hs \in {DecodedHs} :
                res = Ok(RefVerifyEquation(sig.r, sig.s, P, hs))

\* The 2 * B32 bytes given to Signature.fromHex and the scalar in its second
\* half.
SignatureBytes == ensureBytes(inp.signature)
RefScalar == SignatureBytes.val[B32 + 1] + 256 * SignatureBytes.val[B32 + 2]

\* C3: Signature.fromHex decodes a signature of 2 * B32 bytes whose first
\* half is the encoding of a point for every s in [0, n), s = 0 included,
\* and fails for every s >= n.
C3_ScalarRange ==
    (/\ inp.op = "Signature.fromHex"
     /\ SignatureBytes.ok
     /\ Len(SignatureBytes.val) = 2 * B32
     /\ Point_fromHex(U8(SubSeq(SignatureBytes.val, 1, B32))).ok)
        => (res.ok <=> RefScalar < CURVE_n)

\* C4: with an injected SHA-512 no call of getPublicKey, sign or verify
\* raises 'SHA512 unavailable on platform'; the error occurs only when no
\* implementation was injected and the platform offers none.
C4_InjectedShaEverywhere ==
    res = Throw("SHA512 unavailable on platform") => (~sha512Impl /\ ~platformSha)

\* C5: for every affine point P of the curve, Point.fromHex of
\* P.toRawBytes() succeeds and returns a point with the x and the y of P.
C5_PointRoundTrip ==
    (inp.op = "fromHex" /\ inp.point # None) => res = Ok(inp.point)

\* A round trip of a point with odd x, whose encoding has the top bit set.
C5_Witness ==
    /\ inp.op = "fromHex"
    /\ inp.point # None
    /\ inp.point.x % 2 = 1
    /\ inp.hash.v[B32] >= 128
    /\ res = Ok(inp.point)

\* What an input of Point.fromHex holds: whether it is a hex string of odd
\* length, its bytes otherwise, y (the top bit cleared) and
\* (y^2 - 1) / (d y^2 + 1).
RefOddHex == inp.hash.type = "string" /\ Len(inp.hash.v) % 2 = 1
RefBytes ==
    IF inp.hash.type = "Uint8Array" THEN inp.hash.v
    ELSE [i \in 1..(Len(inp.hash.v) \div 2) |->
            16 * inp.hash.v[2 * i - 1] + inp.hash.v[2 * i]]
RefY == (RefBytes[1] + 256 * RefBytes[2]) % Pow2(N255)
RefXSquared ==
    ((RefY * RefY - 1) % CURVE_P) * RefInv(((CURVE_d * ((RefY * RefY) % CURVE_P)) + 1) % CURVE_P)

\* The outcome of Point.fromHex on an input of known length.
RefFromHexOutcome ==
    IF Len(RefBytes) # B32 THEN res = Throw("Point.fromHex: expected 32 bytes")
    ELSE IF RefY >= CURVE_P THEN res = Throw("Point.fromHex expects hex <= Fp")
    ELSE IF ~RefIsSquare(RefXSquared) THEN res = Throw("Point.fromHex: invalid y coordinate")
    ELSE res.ok /\ res.val.y = RefY /\ RefOnCurve(res.val)

\* C6: Point.fromHex raises the error of hexToBytes for a hex string of odd
\* length, 'expected 32 bytes' for every other input that is not B32 bytes
\* long, the out-of-range error when y (top bit cleared) is >= p, 'invalid y
\* coordinate' when (y^2 - 1) / (d y^2 + 1) is not a square, and returns a
\* point (x, y) of the curve in every other case.
C6_FromHexErrors ==
    inp.op = "fromHex" =>
        IF RefOddHex THEN res = Throw("hexToBytes: received invalid unpadded hex")
        ELSE RefFromHexOutcome

\* A hex string of odd length, rejected by hexToBytes.
C6_Witness ==
    /\ inp.op = "fromHex"
    /\ RefOddHex
    /\ res = Throw("hexToBytes: received invalid unpadded hex")

\* C6 as stated: 'expected 32 bytes' for every input that is not B32 bytes,
\* a hex string of odd length included.
C6_AsStated ==
    inp.op = "fromHex" =>
        IF RefOddHex THEN res = Throw("Point.fromHex: expected 32 bytes")
        ELSE RefFromHexOutcome

\* C7: for every output E of fromRistrettoHash and every multiple E of
\* BASE, fromRistrettoBytes of E.toRistrettoBytes() succeeds and the decoded
\* point ristrettoEquals E.
C7_RistrettoRoundTrip ==
    (inp.op = "fromRistrettoBytes" /\ inp.point # None)
        => res.ok /\ RefValid(inp.point) /\ ristrettoEquals(res.val, inp.point)

\* A round trip that returns another representative than the point encoded.
C7_Witness ==
    /\ inp.op = "fromRistrettoBytes"
    /\ inp.point # None
    /\ res.ok
    /\ RefAffine(res.val) # RefAffine(inp.point)
    /\ ristrettoEquals(res.val, inp.point)

\* The bytes are not a canonical encoding: not B32 bytes, the top bit set,
\* a value >= p, or an odd s.
RefNonCanonical ==
    \/ Len(inp.bytes) # B32
    \/ inp.bytes[B32] >= 128
    \/ inp.bytes[1] + 256 * inp.bytes[2] >= CURVE_P
    \/ inp.bytes[1] % 2 = 1

\* C8: a point that fromRistrettoBytes decoded from b encodes to b again,
\* byte for byte, and fromRistrettoBytes fails on every input that is not
\* B32 bytes, has the top bit set, encodes a value >= p or an odd s.
C8_RistrettoCanonical ==
    /\ (inp.op = "toRistrettoBytes" /\ inp.point = None) => res = Ok(inp.bytes)
    /\ (inp.op = "fromRistrettoBytes" /\ inp.point = None /\ RefNonCanonical) => ~res.ok

\* A decoded point other than the identity, encoded to the bytes it came from.
C8_Witness ==
    /\ inp.op = "toRistrettoBytes"
    /\ inp.point = None
    /\ inp.bytes # <<0, 0>>
    /\ res = Ok(inp.bytes)

\* C9: a.ristrettoEquals(b) returns true exactly when a.equals(b) returns
\* true or Y1 Y2 = X1 X2 (mod p).
C9_RistrettoEquals ==
    inp.op = "ristrettoEquals" =>
        res = Ok(\/ equals(inp.a, inp.b)
                 \/ (inp.a.y * inp.b.y) % CURVE_P = (inp.a.x * inp.b.x) % CURVE_P)

\* Two points that equals tells apart and ristrettoEquals does not.
C9_Witness ==
    /\ inp.op = "ristrettoEquals"
    /\ ~equals(inp.a, inp.b)
    /\ (inp.a.x * inp.b.y) % CURVE_P # (inp.b.x * inp.a.y) % CURVE_P
    /\ res = Ok(TRUE)

\* C9 as stated: true exactly when a.equals(b) returns true or
\* X1 Y2 = X2 Y1 (mod p).
C9_AsStated ==
    inp.op = "ristrettoEquals" =>
        res = Ok(\/ equals(inp.a, inp.b)
                 \/ (inp.a.x * inp.b.y) % CURVE_P = (inp.b.x * inp.a.y) % CURVE_P)

\* C10: for valid extended points a and b, a.equals(b) returns true if and
\* only if X1 Z2 = X2 Z1 and Y1 Z2 = Y2 Z1 (mod p), that is, if and only if
\* a and b represent the same affine point.
C10_EqualsSameAffinePoint ==
    (inp.op = "equals" /\ RefValid(inp.a) /\ RefValid(inp.b)) =>
        res = Ok(/\ (inp.a.x * inp.b.z) % CURVE_P = (inp.b.x * inp.a.z) % CURVE_P
                 /\ (inp.a.y * inp.b.z) % CURVE_P = (inp.b.y * inp.a.z) % CURVE_P)


\* Two extended points that stand for the same affine point of the curve:
\* both have Z # 0 and X/Z, Y/Z agree.
RefSamePoint(e1, e2) ==
    /\ e1.z % CURVE_P # 0
    /\ e2.z % CURVE_P # 0
    /\ RefAffine(e1) = RefAffine(e2)

\* C11: scalar multiplication is linear.  For positive scalars a, b and every
\* curve point P, P.multiply(a).add(P.multiply(b)) is the point
\* P.multiply(a + b), and P.multiply(b).multiply(a) is the point
\* P.multiply(a * b mod l).
C11_MultiplyLinear ==
    /\ inp.op = "multiplyAdd" =>
          \E sum \in {multiply(inp.point, toBigInt(inp.a + inp.b), "none", WINDOW_SIZE,
                               pointPrecomputes)} :
             /\ res.ok
             /\ sum.ok
             /\ RefSamePoint(res.val, sum.val)
    /\ inp.op = "multiplyMultiply" =>
          \E prod \in {multiply(inp.point, toBigInt((inp.a * inp.b) % CURVE_n), "none",
                                WINDOW_SIZE, pointPrecomputes)} :
             /\ res.ok
             /\ prod.ok
             /\ RefSamePoint(res.val, prod.val)

\* C12: for every curve point P, torsion points included, multiply and
\* multiplyUnsafe return the point P for the scalar 1 and the identity ZERO
\* for the scalar l.
C12_MultiplyOneAndOrder ==
    inp.op \in {"multiply", "multiplyUnsafe"} =>
        /\ inp.a = 1 => (res.ok /\ RefSamePoint(res.val, inp.point))
        /\ inp.a = CURVE_n => (res.ok /\ RefSamePoint(res.val, ExtendedPoint_ZERO))

\* A scalar that is a bigint of the backend of the instance, or a number
\* that is a safe integer.
RefScalarType(scalar) ==
    \/ scalar.type = (IF Ints = "JSBI" THEN "JSBI" ELSE "bigint")
    \/ scalar.type = "number" /\ Number_isSafeInteger(scalar)

\* C13: multiply and multiplyUnsafe raise 'Point#multiply: expected number or
\* bigint' for the scalar 0, for every negative scalar, and for every
\* scalar that is neither a bigint of the backend of the instance nor a
\* number that is a safe integer (2^53 and 1.5 are none); for every other
\* scalar, a positive bigint of the backend or a positive safe integer,
\* they do not raise it (the scalar passes the validation).
C13_ScalarValidation ==
    /\ inp.op \in {"multiply", "multiplyUnsafe"} =>
          (inp.a <= 0 <=> res = Throw("Point#multiply: expected number or bigint"))
    /\ inp.op \in {"multiply(value)", "multiplyUnsafe(value)"} =>
          ((inp.a.v <= 0 \/ ~RefScalarType(inp.a))
              <=> res = Throw("Point#multiply: expected number or bigint"))

\* The number 2^53, positive and not a safe integer, was given to multiply
\* and raised the error.
C13_Witness ==
    /\ inp.op = "multiply(value)"
    /\ inp.a = Number(1, 53)
    /\ inp.point = ExtendedPoint_BASE
    /\ res = Throw("Point#multiply: expected number or bigint")

\* C13 as stated: the error is raised for the scalar 0 and for every
\* negative scalar, and for no positive scalar.
C13_AsStated ==
    /\ inp.op \in {"multiply", "multiplyUnsafe"} =>
          (inp.a <= 0 <=> res = Throw("Point#multiply: expected number or bigint"))
    /\ inp.op \in {"multiply(value)", "multiplyUnsafe(value)"} =>
          (inp.a.v <= 0 <=> res = Throw("Point#multiply: expected number or bigint"))

\* The affine point of fromAffine(point).multiplyUnsafe(k).
RefMultiplyUnsafe(point, k) ==
    LET ext == fromAffine(point)
        prod == IF ext.ok THEN multiplyUnsafe(ext.val, toBigInt(k)) ELSE ext
    IN  IF prod.ok THEN toAffine(prod.val) ELSE prod

\* C14: precompute independence.  Whatever window size in {1, 2, 4, 8} a
\* point was given and whatever table the registry holds for it after any
\* calls, P.multiply(k) returns the point it returns on a new Point with the
\* coordinates of P (no window size, no table), and that is the point
\* multiplyUnsafe(k) gives.
C14_PrecomputeIndependence ==
    (/\ inp.op = "multiply"
     /\ windowSizeOf(inp.obj, WINDOW_SIZE) \in Windows) =>
        \E fresh \in {Point_multiply(coordinates(inp.obj), "temp", toBigInt(inp.k), <<>>,
                                     <<>>)},
           unsafe \in {RefMultiplyUnsafe(coordinates(inp.obj), inp.k)} :
            /\ res.ok
            /\ res = Out(fresh)
            /\ res = unsafe

\* A step in which Point.precompute(W, point) returned; inp'.obj is the
\* argument and res'.val the point returned.
PrecomputeReturned ==
    /\ inp'.op = "precompute"
    /\ inp'.calls = inp.calls + 1
    /\ res'.ok

\* The window size and the registry entry of obj are the same before and
\* after the step.
KeepsWindowAndTable(obj) ==
    /\ (obj \in DOMAIN WINDOW_SIZE) = (obj \in DOMAIN WINDOW_SIZE')
    /\ obj \in DOMAIN WINDOW_SIZE => WINDOW_SIZE'[obj] = WINDOW_SIZE[obj]
    /\ (obj \in DOMAIN pointPrecomputes) = (obj \in DOMAIN pointPrecomputes')
    /\ obj \in DOMAIN pointPrecomputes => pointPrecomputes'[obj] = pointPrecomputes[obj]

PrecomputeResult ==
    /\ res'.val.WINDOW_SIZE = inp'.W
    /\ WINDOW_SIZE'[res'.val.obj] = inp'.W
    /\ PointXY(res'.val.x, res'.val.y) = coordinates(inp'.obj)

\* C15: when Point.precompute(W, point) returns, the point returned has
\* _WINDOW_SIZE = W and the coordinates of the argument.  If the argument
\* equals Point.BASE (same coordinates) the point returned is the argument
\* object itself, which is the Point.BASE object only if that was the
\* argument; otherwise it is a new clone, and the argument keeps its window
\* size and its registry entry.
C15_PrecomputeReturns ==
    [][PrecomputeReturned =>
          /\ PrecomputeResult
          /\ IF Point_equals(coordinates(inp'.obj), Point_BASE)
             THEN res'.val.obj = inp'.obj
             ELSE res'.val.obj = "Q" /\ KeepsWindowAndTable(inp'.obj)]_vars

\* A point with the coordinates of BASE that is not the Point.BASE object
\* was precomputed with W = 4.
C15_Witness ==
    /\ inp.op = "precompute"
    /\ res.ok
    /\ inp.obj = "P"
    /\ inp.P = Point_BASE
    /\ res.val.obj = "P"
    /\ inp.W = 4

\* C15 as stated: the point returned for an argument that equals BASE is the
\* Point.BASE object itself.
C15_AsStated ==
    [][PrecomputeReturned =>
          /\ PrecomputeResult
          /\ IF Point_equals(coordinates(inp'.obj), Point_BASE)
             THEN res'.val.obj = "BASE"
             ELSE res'.val.obj = "Q" /\ KeepsWindowAndTable(inp'.obj)]_vars

\* The window size a call works with: the argument of Point.precompute, or
\* the _WINDOW_SIZE of the point multiplied (1 when it has none).
CallWindow ==
    IF inp.op = "precompute" THEN inp.W
    ELSE IF inp.obj \in DOMAIN WINDOW_SIZE THEN WINDOW_SIZE[inp.obj] ELSE 1

\* The object whose table a call looks up.
CallTarget ==
    IF inp.op = "precompute"
    THEN Point_precomputeCached(coordinates(inp.obj), inp.obj, "Q")
    ELSE inp.obj

\* The positive powers of two that divide 256 (N256 at this scale).
RefPowersOfTwo == {w \in 1..N256 : N256 % w = 0}

\* The clone that Point.precompute made was lost with the error of the call;
\* the Q of the caller is then the clone of an earlier call.
CloneLost == inp.op = "precompute" /\ CallTarget = "Q" /\ ~res.ok

\* C16: a multiplication whose window size is not a positive power of two
\* dividing 256 raises 'Invalid precomputation window, must be power of 2'
\* and leaves no table in the registry for the point it worked on, where the
\* caller holds that point.
C16_InvalidWindowRaises ==
    (/\ inp.op \in {"multiply", "precompute"}
     /\ CallWindow \notin RefPowersOfTwo) =>
        /\ res = Throw("Point#wNAF: Invalid precomputation window, must be power of 2")
        /\ CloneLost \/ CallTarget \notin DOMAIN pointPrecomputes

\* The affine point entry i of the table of point for window size W holds in
\* the layout of precomputeWindow: (j * 2^(window * W)) * point for the j-th
\* entry of a window.
RefTableEntry(point, W, i) ==
    LET window == (i - 1) \div Pow2(W - 1)
        j == ((i - 1) % Pow2(W - 1)) + 1
    IN  RefMul((j * Pow2(window * W)) % (CURVE_h * CURVE_n), [x |-> point.x, y |-> point.y])

RefTableOf(obj) ==
    LET W == WINDOW_SIZE[obj]
        table == pointPrecomputes[obj]
    IN  /\ W > 0
        /\ W # 1
        /\ Len(table) = ((N256 \div W) + 1) * Pow2(W - 1)
        /\ \A i \in 1..Len(table) :
              /\ table[i].z = 1
              /\ RefValid(table[i])
              /\ RefAffine(table[i]) = RefTableEntry(coordinates(obj), W, i)

\* C17: registry invariant.  After any calls, P._setWindowSize(w) leaves no
\* registry entry for P, and every table in the registry under a point P has
\* window size W = P._WINDOW_SIZE # 1, length (256 / W + 1) * 2^(W - 1),
\* entries with Z = 1 that are the multiples of P in the window layout.
C17_RegistryInvariant ==
    /\ inp.op = "_setWindowSize" => inp.obj \notin DOMAIN pointPrecomputes
    /\ \A obj \in DOMAIN pointPrecomputes :
          /\ obj \in DOMAIN WINDOW_SIZE
          /\ RefTableOf(obj)

\* The draw the call returned, as a number.
RefDrawValue == bytesToNumberLE(res.val.v)

\* C18: randomPrivateKey ends after at most 1024 draws of random bytes.  It
\* returns the draw just made, the first whose little-endian value v has
\* 1 < v < l (every draw before it was rejected), and it raises the 'PRNG is
\* broken' error exactly when 1024 draws were rejected; once called, it
\* does end.
C18_RandomPrivateKey ==
    /\ [](inp.op = "randomPrivateKey" =>
            /\ inp.draws <= RandomIterations
            /\ inp.draws = RandomIterations => (res # None \/ inp.i = 0)
            /\ (res # None /\ res.ok) =>
                  /\ res.val = U8(inp.b32)
                  /\ 1 < RefDrawValue
                  /\ RefDrawValue < CURVE_n
                  /\ inp.rejected = inp.draws - 1
            /\ res = Throw("Valid private key was not found in 1024 iterations. PRNG is broken")
                  <=> (inp.rejected = RandomIterations /\ inp.i = -1))
    /\ (inp.op = "randomPrivateKey") ~> (res # None)

\* All 1024 draws were rejected and the error was raised.
C18_Witness ==
    /\ inp.op = "randomPrivateKey"
    /\ inp.rejected = RandomIterations
    /\ res = Throw("Valid private key was not found in 1024 iterations. PRNG is broken")

\* A key that is a bigint of the backend of the instance, or a number that
\* is a safe integer, and the integer it holds.
RefKeyType(key) ==
    \/ key.type = (IF Ints = "JSBI" THEN "JSBI" ELSE "bigint")
    \/ key.type = "number" /\ Number_isSafeInteger(key)

RefKeyValue(key) == IF key.type = "number" THEN Number_value(key) ELSE key.v

\* C19: normalizePrivateKey accepts a key that is a number or a bigint
\* exactly when it is a bigint of the backend of the instance or a number
\* that is a safe integer, and the integer n it holds has 0 <= n < 2^256
\* (2^256 itself passes the test of the range and fails the test of the
\* length of its hex digits); it accepts a byte array exactly when it is 32
\* bytes long and a hex string exactly when it is 64 characters long; what
\* it returns is 32 bytes.
C19_NormalizeAccepts ==
    inp.op = "normalizePrivateKey" =>
        /\ inp.key.type \in {"number", "bigint", "JSBI"} =>
              (res.ok <=> /\ RefKeyType(inp.key)
                          /\ 0 <= RefKeyValue(inp.key)
                          /\ RefKeyValue(inp.key) < Pow2(N256))
        /\ inp.key.type = "Uint8Array" => (res.ok <=> Len(inp.key.v) = B32)
        /\ inp.key.type = "string" => (res.ok <=> Len(inp.key.v) = 2 * B32)
        /\ res.ok => Len(res.val) = B32

\* The integer 2^256 was given as a key and rejected.
C19_Witness ==
    /\ inp.op = "normalizePrivateKey"
    /\ inp.key.type = "number"
    /\ inp.key.v = Pow2(N256)
    /\ res = Throw("Expected 32 bytes of private key")

\* C19 as stated: every integer key n with 0 <= n <= 2^256, both ends
\* included, is accepted, and every integer key outside that range is
\* rejected (read on the keys whose integer is one of the model: the
\* bigints, and the numbers with exp = 0).
C19_AsStated ==
    inp.op = "normalizePrivateKey" =>
        /\ (inp.key.type \in {"bigint", "JSBI"}
              \/ (inp.key.type = "number" /\ inp.key.exp = 0)) =>
              (res.ok <=> (0 <= inp.key.v /\ inp.key.v <= Pow2(N256)))
        /\ inp.key.type = "Uint8Array" => (res.ok <=> Len(inp.key.v) = B32)
        /\ inp.key.type = "string" => (res.ok <=> Len(inp.key.v) = 2 * B32)
        /\ res.ok => Len(res.val) = B32

\* C20: for an integer key n that it accepts, normalizePrivateKey returns the
\* 32-byte big-endian encoding of n (the bytes of the hex digits of n, padded
\* on the left): read from the last byte to the first, the bytes give n.
C20_NormalizeBigEndian ==
    (/\ inp.op = "normalizePrivateKey"
     /\ inp.key.type = "number"
     /\ res.ok) =>
        /\ Len(res.val) = B32
        /\ bytesToNumberLE(reverse(res.val)) = inp.key.v

\* The key 256 was given: its bytes are 1, 0.
C20_Witness ==
    /\ inp.op = "normalizePrivateKey"
    /\ inp.key.type = "number"
    /\ inp.key.v = 256
    /\ res = Ok(<<1, 0>>)

\* C20 as stated: the bytes returned are the little-endian encoding of n.
C20_AsStated ==
    (/\ inp.op = "normalizePrivateKey"
     /\ inp.key.type = "number"
     /\ res.ok) =>
        /\ Len(res.val) = B32
        /\ bytesToNumberLE(res.val) = inp.key.v

(***************************************************************************)
(* Properties of the functions (SpecFunctions).                            *)
(***************************************************************************)
\* Whether n < 256^len, by the number of base-256 digits of n.
RECURSIVE RefByteLength(_)
RefByteLength(n) == IF n = 0 THEN 0 ELSE 1 + RefByteLength(n \div 256)

RefFitsIn(n, len) == RefByteLength(n) <= len

\* The bytes a number fills: one for 0, else up to its last byte that is
\* not 0.
RefFills(bytes, n) ==
    IF n = 0 THEN bytes = <<0>> ELSE bytes[Len(bytes)] # 0

\* C21, as the code has it: numberToBytesPadded(n, len) never fails and
\* returns bytes whose little-endian value is n: exactly len bytes for
\* every 0 <= n < 256^len with len >= 1, and for every n >= 256^len (and
\* for len = 0) more than len bytes, as many as n fills.  serializeNumber
\* always asks for fewer bytes than its number fills and returns the bytes
\* the number fills.
C21_NumberToBytesPadded ==
    /\ inp.op \in {"numberToBytesPadded", "serializeNumber"} =>
          res.ok /\ bytesToNumberLE(res.val) = inp.a
    /\ inp.op = "numberToBytesPadded" =>
          IF RefFitsIn(inp.a, inp.b) /\ inp.b >= 1 THEN Len(res.val) = inp.b
          ELSE Len(res.val) > inp.b /\ RefFills(res.val, inp.a)
    /\ inp.op = "serializeNumber" => RefFills(res.val, inp.a)

\* A number of three bytes asked for in two bytes comes back in three.
C21_Witness ==
    /\ inp.op = "numberToBytesPadded"
    /\ inp.a = 65536 /\ inp.b = 2
    /\ res = Ok(<<0, 0, 1>>)

\* C21 as stated: exactly len bytes of value n for n < 256^len, and an
\* error for every n >= 256^len.
C21_AsStated ==
    inp.op = "numberToBytesPadded" =>
        IF RefFitsIn(inp.a, inp.b)
        THEN res.ok /\ Len(res.val) = inp.b /\ bytesToNumberLE(res.val) = inp.a
        ELSE ~res.ok

\* The greatest common divisor of two naturals.
RECURSIVE RefGcd(_, _)
RefGcd(a, b) == IF b = 0 THEN a ELSE RefGcd(b, a % b)

\* C22, as the code has it: invert(a, m) returns x in [0, m) with
\* a x = 1 (mod m) whenever a # 0, m > 0 and gcd(a, m) = 1, and raises an
\* error whenever a = 0, m <= 0 or gcd(a, m) # 1.  (For m > 1 a multiple of
\* m has gcd m and is refused; for m = 1 every a # 0 is answered with 0.)
C22_Invert ==
    inp.op = "invert" =>
        IF inp.a # 0 /\ inp.b > 0 /\ RefGcd(inp.a % inp.b, inp.b) = 1
        THEN /\ res.ok
             /\ res.val \in 0..(inp.b - 1)
             /\ (inp.a * res.val) % inp.b = 1 % inp.b
        ELSE ~res.ok

\* The inverse of 7 modulo the group order.
C22_Witness ==
    /\ inp.op = "invert"
    /\ inp.a = 7 /\ inp.b = CURVE_n
    /\ res.ok /\ (7 * res.val) % CURVE_n = 1

\* C22 as stated: an error whenever a = 0 (mod m), m <= 0 or gcd(a, m) # 1,
\* and the inverse otherwise.
C22_AsStated ==
    inp.op = "invert" =>
        IF inp.b > 0 /\ inp.a % inp.b # 0 /\ RefGcd(inp.a % inp.b, inp.b) = 1
        THEN /\ res.ok
             /\ res.val \in 0..(inp.b - 1)
             /\ (inp.a * res.val) % inp.b = 1
        ELSE ~res.ok

\* Whether x^2 v = u (mod p).
RefRootOf(x, u, v) == (((x * x) % CURVE_P) * v) % CURVE_P = u % CURVE_P

\* C23: uvRatio(u, v) never raises and, for u, v in [0, p): isValid is true
\* exactly when some x satisfies x^2 v = u (mod p); when isValid is true
\* the value returned is such an x; and the value returned is always in
\* [0, p) and even.
C23_UvRatio ==
    inp.op = "uvRatio" =>
        /\ res.ok
        /\ res.val.isValid = (\E x \in 0..(CURVE_P - 1) : RefRootOf(x, inp.a, inp.b))
        /\ res.val.isValid => RefRootOf(res.val.value, inp.a, inp.b)
        /\ res.val.value \in 0..(CURVE_P - 1)
        /\ res.val.value % 2 = 0

\* A ratio with a root (4 / 1) and one without (2 / 1: 2 is not a square
\* modulo p = 5 (mod 8)) are both asked for.
C23_Witness ==
    /\ inp.op = "uvRatio"
    /\ inp.a = 4 /\ inp.b = 1
    /\ res.val.isValid /\ res.val.value \in {2, CURVE_P - 2}

\* C24: fromAffine returns (x, y, 1, x y mod p) for every affine point
\* (x, y) of the curve, a zero coordinate and either integer backend
\* included: ZERO = (0, 1, 1, 0) for the identity (0, 1) and for no other
\* point; and it raises 'ExtendedPoint#fromAffine: expected Point' for an
\* object that carries z or t.
C24_FromAffine ==
    inp.op = "fromAffine" =>
        IF "z" \in DOMAIN inp.a \/ "t" \in DOMAIN inp.a
        THEN res = Throw("ExtendedPoint#fromAffine: expected Point")
        ELSE /\ res = Ok(ExtendedPoint(inp.a.x, inp.a.y, 1, (inp.a.x * inp.a.y) % CURVE_P))
             /\ (res.val = ExtendedPoint_ZERO) = (inp.a = RefIdentity)

\* C25: for all valid extended points a and b of the curve, torsion points
\* and the identity included, a.add(b) is a valid extended point (Z # 0,
\* T Z = X Y, coordinates in [0, p)) that represents the sum of a and b in
\* the group, and add takes its F = 0 branch, which forwards to double,
\* only when a and b represent the same affine point.
C25_AddGroupLaw ==
    inp.op = "add" =>
        /\ \A c \in {"x", "y", "z", "t"} : res.val[c] \in 0..(CURVE_P - 1)
        /\ RefValid(res.val)
        /\ RefAffine(res.val) = RefAdd(RefAffine(inp.a), RefAffine(inp.b))
        /\ addSamePoint(inp.a, inp.b) => RefAffine(inp.a) = RefAffine(inp.b)

\* C30: invertBatch(v) leaves every entry 0 as 0 and returns at every other
\* index the inverse of v[i] modulo p, written into v itself; it calls
\* invert exactly once whatever the length of v, the empty array included
\* (on the product of the entries that are not 0), so it succeeds on
\* arrays that are empty or hold zeros.  toAffineBatch and normalizeZ leave
\* their input points as they were, and what they return, when they
\* return, are the affine points of their inputs.
C30_InvertBatch ==
    /\ inp.op = "invertBatch" =>
          /\ res.ok
          /\ inp.inverts = 1
          /\ inp.b = res.val
          /\ Len(res.val) = Len(inp.a)
          /\ \A i \in 1..Len(inp.a) :
                IF inp.a[i] = 0 THEN res.val[i] = 0
                ELSE /\ Ok(res.val[i]) = invert(inp.a[i], CURVE_P)
                     /\ res.val[i] = RefInv(inp.a[i])
    /\ inp.op \in {"toAffineBatch", "normalizeZ"} =>
          /\ inp.b = inp.a
          /\ res.ok =>
                /\ Len(res.val) = Len(inp.a)
                /\ \A i \in 1..Len(inp.a) :
                      /\ pointEquals(res.val[i], RefAffine(inp.a[i]))
                      /\ inp.op = "normalizeZ" => res.val[i].z = 1 /\ RefValid(res.val[i])

\* An array with a zero between two entries that are inverted.
C30_Witness ==
    /\ inp.op = "invertBatch"
    /\ inp.a = <<2, 0, CURVE_P - 1>>
    /\ inp.inverts = 1
    /\ res = Ok(<<(CURVE_P + 1) \div 2, 0, CURVE_P - 1>>)

(***************************************************************************)
(* Properties of the windowed multiplication (SpecWNAF).                   *)
(***************************************************************************)
\* The multiplication of the run: its window size, its scalar reduced as
\* multiply reduces it, the table wNAF worked from (the stored one, or the
\* one built for the call when W = 1) and the pair [p, f] of the loop.
WNAFWindow == WINDOW_SIZE["P"]
WNAFScalar == inp.k % CURVE_n
WNAFTable ==
    IF "P" \in DOMAIN pointPrecomputes THEN pointPrecomputes["P"]
    ELSE precomputeWindow(fromAffine(inp.P).val, WNAFWindow)
WNAFRecoding == wNAFDigits(WNAFWindow, WNAFScalar, 0)
WNAFPair ==
    wNAFLoop(WNAFWindow, WNAFTable,
             [window |-> 0, n |-> WNAFScalar, p |-> ExtendedPoint_ZERO,
              f |-> ExtendedPoint_ZERO])

\* The sum of d_i 2^(W i) over the digits from the i-th on.
RECURSIVE RefDigitSum(_, _, _)
RefDigitSum(ds, W, i) ==
    IF i > Len(ds) THEN 0
    ELSE ds[i].wbits * Pow2(W * (i - 1)) + RefDigitSum(ds, W, i + 1)

\* C26: for every scalar n in [0, l) and every window size W in 1, 2, 4, 8
\* the loop of wNAF extracts N256 / W + 1 digits, all in
\* [-2^(W-1), 2^(W-1)], whose sum of d_i 2^(W i) is n; the scalar left
\* after the last window is 0; and every index of the table that is read
\* lies inside the table, whose length is (N256 / W + 1) 2^(W-1).
C26_SignedRecoding ==
    inp.op = "multiply" =>
        /\ WNAFScalar \in 0..(CURVE_n - 1)
        /\ Len(WNAFRecoding) = (N256 \div WNAFWindow) + 1
        /\ \A i \in 1..Len(WNAFRecoding) :
              /\ WNAFRecoding[i].wbits \in (-Pow2(WNAFWindow - 1))..Pow2(WNAFWindow - 1)
              /\ WNAFRecoding[i].read \in 0..(Len(WNAFTable) - 1)
        /\ RefDigitSum(WNAFRecoding, WNAFWindow, 1) = WNAFScalar
        /\ WNAFRecoding[Len(WNAFRecoding)].n = 0
        /\ Len(WNAFTable) = ((N256 \div WNAFWindow) + 1) * Pow2(WNAFWindow - 1)

\* 255 with W = 8: the digits -1, 1, 0, the first by the signed recoding.
C26_Witness ==
    /\ inp.op = "multiply"
    /\ WNAFWindow = 8 /\ inp.k = 255
    /\ WNAFRecoding[1].wbits = -1 /\ WNAFRecoding[2].wbits = 1
    /\ WNAFRecoding[3].wbits = 0
    /\ res.ok

\* The additions of the loop, one for each digit from the i-th on: into p
\* the entry read, negated for a negative digit; into f the entry read,
\* negated in the windows of odd number.
RECURSIVE RefFold(_, _, _, _)
RefFold(ds, table, i, pf) ==
    IF i > Len(ds) \/ pf[1].x # pf[1].x \/ pf[2].x # pf[2].x THEN pf
    ELSE LET entry == table[ds[i].read + 1]
         IN  IF ds[i].into = "p"
             THEN RefFold(ds, table, i + 1,
                          <<add(pf[1], IF ds[i].wbits < 0 THEN negate(entry) ELSE entry),
                            pf[2]>>)
             ELSE RefFold(ds, table, i + 1,
                          <<pf[1],
                            add(pf[2], IF (i - 1) % 2 # 0 THEN negate(entry) ELSE entry)>>)

\* What multiply returns if it depends on p alone: p brought to Z = 1.
RefFromP ==
    LET alone == normalizeZ(<<WNAFPair[1]>>)
    IN  IF alone.ok THEN Ok(PointXY(alone.val[1].x, alone.val[1].y))
        ELSE Throw(alone.err)

\* C27: for a fixed window size W wNAF makes the same number of additions
\* for every scalar, one for each of the N256 / W + 1 windows, each into
\* the accumulator p or into the dummy f; and what multiply returns depends
\* on p only, never on f.
C27_BalancedWNAF ==
    inp.op = "multiply" =>
        /\ Len(WNAFRecoding) = (N256 \div WNAFWindow) + 1
        /\ \A i \in 1..Len(WNAFRecoding) : WNAFRecoding[i].into \in {"p", "f"}
        /\ WNAFPair = RefFold(WNAFRecoding, WNAFTable, 1,
                              <<ExtendedPoint_ZERO, ExtendedPoint_ZERO>>)
        /\ res = RefFromP

(***************************************************************************)
(* Properties of decoding (SpecPoint) and of precomputing (SpecWindow).    *)
(***************************************************************************)
\* C28: Point.fromHex does not decode B32 bytes whose recovered x is 0
\* while their sign bit, the top bit of the last byte, is 1; that is,
\* whenever fromHex(b) succeeds, fromHex(b).toRawBytes() is b.
C28_FromHexCanonical ==
    inp.op = "fromHex" /\ res.ok =>
        /\ ~(res.val.x = 0 /\ ensureBytes(inp.hash).val[B32] >= 128)
        /\ Point_toRawBytes(res.val) = ensureBytes(inp.hash).val

\* The error of wNAF for a window size that does not divide N256.
InvalidWindow ==
    Throw("Point#wNAF: Invalid precomputation window, must be power of 2")

\* C29: when Point.precompute(W, P) fails with the invalid-window error the
\* state is as before the call: the window size and the registry entry of
\* Point.BASE and of P are unchanged, and a Point.BASE.multiply that follows
\* (as getPublicKey and sign make it) succeeds.
C29_FailedPrecomputeKeepsState ==
    [][/\ (/\ inp'.op = "precompute"
           /\ inp'.calls = inp.calls + 1
           /\ res' = InvalidWindow) =>
              KeepsWindowAndTable("BASE") /\ KeepsWindowAndTable(inp'.obj)
       /\ (/\ inp.op = "precompute"
           /\ res = InvalidWindow
           /\ inp'.op = "multiply"
           /\ inp'.obj = "BASE") => res'.ok]_vars

=============================================================================
